---------------------------- MODULE Spec2Model ----------------------------
(***************************************************************************)
(* A model of the VBAN protocol engine of VM-Remote:                       *)
(*   - VBANRTPacketListener (src/linux-app/voicemeeter_deck.py): the       *)
(*     receive loop, the RT-packet (telemetry) decoder and the snapshot;   *)
(*   - VBANSender (linux-app and backend): header encoding and the frame   *)
(*     counter;                                                            *)
(*   - VoicemeeterDeckApp: mixer-type resolution and auto-detection.       *)
(*                                                                         *)
(* Datagrams are sequences of bytes (1-based here, 0-based in the source:  *)
(* source offset k is index k+1).  Python's None is the number None (-1).  *)
(* A stored level is a rational [num, den]: the source stores              *)
(* level * 0.01, modelled as num/den with den = 100.                       *)
(***************************************************************************)
EXTENDS Integers, Sequences, FiniteSets, TLC

\* ------------------------------------------------------------------------
\* Bounds of the model
\* ------------------------------------------------------------------------

\* how many receive-loop threads may exist at once
MaxThreads == 2

\* how many send_command / register_rt_packet calls one sender is followed for
MaxCalls == 4

\* how many detection polls may be scheduled at once
MaxPolls == 2

\* how many frames the receive loop decodes while its lock is followed
MaxFrames == 2

\* how many commands the UI thread sends while the lock is followed
MaxUiSends == 1

\* how many keep-alive ticks the application is followed for
MaxTicks == 3

\* seconds the keep-alive schedule is followed for
MaxClock == 40

\* ------------------------------------------------------------------------
\* Protocol constants (voicemeeter_deck.py:26-30)
\* ------------------------------------------------------------------------

VBAN_PROTOCOL_TXT == 64

VBAN_PROTOCOL_SERVICE == 96

VBAN_DATA_FORMAT == 16

VBAN_SERVICE_RTPACKETREGISTER == 32

VBAN_SERVICE_RTPACKET == 33

\* RT packet state bit masks
VMRTSTATE_MODE_MUTE == 1

VMRTSTATE_MODE_BUSA1 == 4096

VMRTSTATE_MODE_BUSA2 == 8192

VMRTSTATE_MODE_BUSA3 == 16384

VMRTSTATE_MODE_BUSA4 == 32768

VMRTSTATE_MODE_BUSA5 == 524288

VMRTSTATE_MODE_BUSB1 == 65536

VMRTSTATE_MODE_BUSB2 == 131072

VMRTSTATE_MODE_BUSB3 == 262144

\* the table with the bits of A1 and A2 exchanged
ROUTING_STATE_BITS_A1A2Swapped ==
    [ A1 |-> VMRTSTATE_MODE_BUSA2, A2 |-> VMRTSTATE_MODE_BUSA1,
      A3 |-> VMRTSTATE_MODE_BUSA3, A4 |-> VMRTSTATE_MODE_BUSA4,
      A5 |-> VMRTSTATE_MODE_BUSA5, B1 |-> VMRTSTATE_MODE_BUSB1,
      B2 |-> VMRTSTATE_MODE_BUSB2, B3 |-> VMRTSTATE_MODE_BUSB3 ]

ROUTING_STATE_BITS ==
    [ A1 |-> VMRTSTATE_MODE_BUSA1, A2 |-> VMRTSTATE_MODE_BUSA2,
      A3 |-> VMRTSTATE_MODE_BUSA3, A4 |-> VMRTSTATE_MODE_BUSA4,
      A5 |-> VMRTSTATE_MODE_BUSA5, B1 |-> VMRTSTATE_MODE_BUSB1,
      B2 |-> VMRTSTATE_MODE_BUSB2, B3 |-> VMRTSTATE_MODE_BUSB3 ]

\* Python's None (voicemeeter_type, socket, thread before start)
None == -1

\* b"VBAN"
VBAN == <<86, 66, 65, 78>>

\* ------------------------------------------------------------------------
\* Bytes and struct
\* ------------------------------------------------------------------------

RECURSIVE BitAnd(_, _)
\* Python's a & b on naturals
BitAnd(a, b) ==
    IF a = 0 \/ b = 0 THEN 0
    ELSE (IF (a % 2 = 1) /\ (b % 2 = 1) THEN 1 ELSE 0) + 2 * BitAnd(a \div 2, b \div 2)

\* data[a:b] of the source (0-based, end exclusive, clipped to the length)
Slice(data, a, b) ==
    LET hi == IF b > Len(data) THEN Len(data) ELSE b
    IN  IF a >= hi THEN <<>> ELSE SubSeq(data, a + 1, hi)

\* one "<h" item: little-endian signed 16-bit at source offset off
UnpackShort(data, off) ==
    LET u == data[off + 1] + 256 * data[off + 2]
    IN  IF u >= 32768 THEN u - 65536 ELSE u

\* struct.unpack_from("<{n}h", data, off)
UnpackShorts(data, off, n) ==
    [i \in 1..n |-> UnpackShort(data, off + 2 * (i - 1))]

\* one "<I" item: little-endian unsigned 32-bit at source offset off
UnpackUInt(data, off) ==
    data[off + 1] + 256 * data[off + 2] + 65536 * data[off + 3]
        + 16777216 * data[off + 4]

\* struct.unpack_from("<{n}I", data, off)
UnpackUInts(data, off, n) ==
    [i \in 1..n |-> UnpackUInt(data, off + 4 * (i - 1))]

\* the level kept as the integer of the wire
ToDb_Raw(level) == [num |-> level, den |-> 1]

\* level * 0.01, the stored dB value
ToDb(level) == [num |-> level, den |-> 100]

\* [0] * n, the initial integer contents of a list
Zeros(n) == [i \in 1..n |-> 0]

\* the initial level list: integer zeros
ZeroLevels(n) == [i \in 1..n |-> [num |-> 0, den |-> 1]]


\* ------------------------------------------------------------------------
\* State
\* ------------------------------------------------------------------------

VARIABLES
    \* VBANRTPacketListener
    running,            \* self.running
    socket,             \* self.socket: "none", "open" (bound), "unbound", "closed"
    thread,             \* self.thread: id of the last thread started, or None
    pc,                 \* position of each receive-loop thread in _listen_thread
    stop_pc,            \* position of a caller inside stop()
    voicemeeter_type,   \* self.voicemeeter_type
    input_levels,       \* self.input_levels
    output_levels,      \* self.output_levels
    strip_states,       \* self.strip_states
    bus_states,         \* self.bus_states
    last_recv,          \* the datagram the last step received (NoRecv if none),
                        \* whether it was handed to the decoder, and the payload
                        \* handed
    last_tail,          \* bytes 212..279 of the last decoded payload that had them
    \* VBANSender
    sender_impl,        \* which VBANSender: "linux-app" or "backend"
    stream_name,        \* self.stream_name, as code points
    frame_counter,      \* self.frame_counter, as two 16-bit halves
    sent,               \* the last datagram this sender put on the network
    last_send,          \* the call made by the last step, and its result
    n_calls,            \* calls made on this sender so far
    \* VoicemeeterDeckApp
    app_pc,             \* "constructed", "started", "running", "closing", "closed"
    mixer_type_setting, \* self.mixer_type_setting
    active_mixer_type,  \* self.active_mixer_type
    pending_polls,      \* scheduled root.after(500, _auto_detect_mixer_type) calls
    last_poll,          \* what _auto_detect_mixer_type did in the last step
    detected,           \* a poll found a recognized type since auto was selected
    \* _resolve_mixer_type as a function
    res_in,             \* its arguments
    res_out,            \* its result
    \* ChannelStrip._update_meter (the UI thread reading the listener)
    meter_pc,           \* position inside _update_meter: Idle, or the widget
                        \* that has synced its buttons and not yet read its level
    last_read,          \* what the last _update_meter read: widget, mask,
                        \* channel range, level
    \* calls of start() by a client of the listener
    last_start,         \* the last start() call: what the OS did, what the call
                        \* found and returned (seq alternates with every call)
    \* self.lock and the threads that take it
    lock,               \* holder of self.lock: None, a loop thread, or UI
    pending,            \* per loop thread: the decoded payload _parse_rt_packet
                        \* is about to store (<<>> outside _parse_rt_packet)
    debug_counter,      \* self._debug_counter modulo 50 (None before the first frame)
    n_frames,           \* frames decoded while the lock is followed
    ui_pc,              \* the UI thread: "idle", "locked" (inside an accessor's
                        \* with-block), "sendto" (inside socket.sendto)
    ui_op,              \* the accessor the UI thread is in
    last_access,        \* the last access to a snapshot field: by whom, to what,
                        \* whether the lock was held, what a reader saw
    \* the keep-alive schedule of the application
    ka_pending,         \* scheduled root.after(10000, _periodic_rt_registration) calls
    ticks,              \* _periodic_rt_registration calls made so far
    \* VBANSender.__init__
    peer_ip,            \* self.ip
    peer_port,          \* self.port
    sender_socket,      \* self.socket of the sender: "none" before __init__ (and
                        \* for the Plugin: vban_sender is None), "open", "closed"
    \* the header code as a function
    codec_in,           \* what is encoded: packet kind, stream name, counter, ...
    codec_out,          \* the datagram built from it, and what a receiver
                        \* decodes from its header
    \* the widgets of the application
    muted,              \* self.muted of the first strip's ChannelStrip
    cfg_muted,          \* config["strips"]["0"]["muted"], the persisted state
    strip_vban,         \* the VBANSender the strips and buses were built with
    recorder_vban,      \* the VBANSender the TapeRecorder was built with
    last_tx,            \* the last call made on a sender by the application:
                        \* by whom, to which peer (seq alternates with every call)
    \* Plugin (backend)
    settings,           \* what _load_settings returns: the content of settings.json
    strip_mute_states,  \* Plugin.strip_mute_states, as get(index, False)
    bus_mute_states,    \* Plugin.bus_mute_states, as get(index, False)
    last_call,          \* the last call of a Plugin method and its outcome
                        \* (seq alternates with every call)
    \* the accessors of the listener as functions
    acc_in,             \* the indices they are called with
    acc_out,            \* what they return
    \* the keep-alive schedule in time
    clock,              \* seconds since the application was constructed
    last_tick_at,       \* clock at the last _periodic_rt_registration
    ka_due,             \* clock at which the scheduled root.after callback is due
    reg_expires         \* clock at which the last registration that was sent
                        \* runs out at the peer (None: none was sent)

listenerCtl == <<running, socket, thread, pc, stop_pc>>

snapshot == <<voicemeeter_type, input_levels, output_levels, strip_states, bus_states>>

rxVars == <<last_recv, last_tail>>

NoRecv == [data |-> <<>>, parsed |-> FALSE, payload |-> <<>>, got |-> FALSE]

\* a step that receives nothing
NothingReceived == last_recv' = NoRecv /\ UNCHANGED last_tail

senderVars == <<sender_impl, stream_name, frame_counter, sent, last_send, n_calls>>

appVars == <<app_pc, mixer_type_setting, active_mixer_type, pending_polls, last_poll,
             detected>>

resVars == <<res_in, res_out, codec_in, codec_out>>

meterVars == <<meter_pc, last_read>>

\* the UI thread is in no _update_meter
Idle == [is_strip |-> FALSE, index |-> None]

lifeVars == <<last_start>>

lockVars == <<lock, pending, debug_counter, n_frames, ui_pc, ui_op, last_access>>

kaVars == <<ka_pending, ticks>>

cfgVars == <<peer_ip, peer_port, sender_socket>>

auxVars == <<meterVars, lifeVars, lockVars, kaVars, cfgVars>>

widgetVars == <<muted, cfg_muted, strip_vban, recorder_vban, last_tx>>

pluginVars == <<settings, strip_mute_states, bus_mute_states, last_call>>

accVars == <<acc_in, acc_out>>

timeVars == <<clock, last_tick_at, ka_due, reg_expires>>

extVars == <<widgetVars, pluginVars, accVars, timeVars>>

vars == <<listenerCtl, snapshot, rxVars, senderVars, appVars, resVars, auxVars, extVars>>

Threads == 1..MaxThreads

\* ------------------------------------------------------------------------
\* Inbound datagrams: the inputs of the receive loop
\* ------------------------------------------------------------------------

\* the byte at 1-based payload position k of byte pattern seed
GenByte(seed, k) == (seed * 97 + k * 53 + 11) % 256

\* an RT payload of plen bytes whose byte 0 is vmtype.  The most significant
\* byte of every 32-bit word of the tail is kept below 128 so that a decoded
\* mask fits the model checker's integers.
Payload(vmtype, plen, seed) ==
    [k \in 1..plen |->
        IF k = 1 THEN vmtype
        ELSE IF k > 212 /\ (k - 212) % 4 = 0 THEN GenByte(seed, k) % 128
        ELSE GenByte(seed, k)]

\* a 28-byte header as the remote sends it
RemoteHeader(sig, proto, svc) ==
    sig \o <<proto, 0, svc, 0>> \o [k \in 1..16 |-> IF k <= 9 THEN 64 + k ELSE 0]
        \o <<7, 0, 0, 0>>

Frame(proto, svc, vmtype, plen, seed) ==
    RemoteHeader(VBAN, proto, svc) \o Payload(vmtype, plen, seed)

\* the byte patterns the inbound payloads are drawn from
Seeds == {1, 2}

\* payload lengths at the two thresholds of the decoder
PayloadLens == {212, 280}

ListenerTypes == {2, 99}

\* telemetry frames, of every length class
TelemetryFrames ==
    {Frame(VBAN_PROTOCOL_SERVICE, VBAN_SERVICE_RTPACKET, t, n, s) :
        t \in ListenerTypes, n \in PayloadLens, s \in Seeds}
    \cup { Frame(127, VBAN_SERVICE_RTPACKET, 6, 280, 1),
           Frame(VBAN_PROTOCOL_SERVICE, VBAN_SERVICE_RTPACKET, 6, 279, 2),
           Frame(VBAN_PROTOCOL_SERVICE, VBAN_SERVICE_RTPACKET, 2, 300, 2),
           Frame(VBAN_PROTOCOL_SERVICE, VBAN_SERVICE_RTPACKET, 6, 211, 1),
           Frame(VBAN_PROTOCOL_SERVICE, VBAN_SERVICE_RTPACKET, 6, 0, 1) }

\* foreign or malformed traffic on the port
ForeignDatagrams ==
    {   RemoteHeader(<<86, 66, 65, 77>>, VBAN_PROTOCOL_SERVICE, VBAN_SERVICE_RTPACKET)
            \o Payload(6, 280, 1),
        Frame(VBAN_PROTOCOL_TXT, VBAN_SERVICE_RTPACKET, 6, 280, 1),
        Frame(VBAN_PROTOCOL_SERVICE, VBAN_SERVICE_RTPACKETREGISTER, 6, 280, 1),
        SubSeq(Frame(VBAN_PROTOCOL_SERVICE, VBAN_SERVICE_RTPACKET, 6, 280, 1), 1, 27),
        <<86, 66>> }

Datagrams == TelemetryFrames \cup ForeignDatagrams

\* ------------------------------------------------------------------------
\* VBANRTPacketListener
\* ------------------------------------------------------------------------

\* the header test without the service-subtype comparison
IsRTPacket_AnyService(data) ==
    /\ Len(data) >= 28
    /\ Slice(data, 0, 4) = VBAN
    /\ BitAnd(data[5], 224) = VBAN_PROTOCOL_SERVICE

\* the header test of _listen_thread
IsRTPacket(data) ==
    /\ Len(data) >= 28
    /\ Slice(data, 0, 4) = VBAN
    /\ BitAnd(data[5], 224) = VBAN_PROTOCOL_SERVICE
    /\ data[7] = VBAN_SERVICE_RTPACKET

\* the minimum-size test of _parse_rt_packet
TooSmall(data) == Len(data) < 212

\* whether the payload carries the state-bitmask tail
HasTail(data) == Len(data) >= 16 + 68 + 128 + 4 + 32 + 32

\* the input levels unpacked from offset 14
ParsedInputLevels_Offset14(data) == [i \in 1..34 |-> ToDb(UnpackShorts(data, 14, 34)[i])]

ParsedInputLevels(data) == [i \in 1..34 |-> ToDb(UnpackShorts(data, 16, 34)[i])]

\* the output levels unpacked one item short
ParsedOutputLevels_Short(data) ==
    [i \in 1..63 |-> ToDb(UnpackShorts(data, 16 + 68, 63)[i])]

ParsedOutputLevels(data) == [i \in 1..64 |-> ToDb(UnpackShorts(data, 16 + 68, 64)[i])]

\* the strip masks unpacked without skipping the 4 bytes before them
ParsedStripStates_NoSkip(data) == UnpackUInts(data, 16 + 68 + 128, 8)

ParsedStripStates(data) == UnpackUInts(data, 16 + 68 + 128 + 4, 8)

ParsedBusStates(data) == UnpackUInts(data, 16 + 68 + 128 + 4 + 32, 8)

\* struct.unpack_from raises struct.error when the buffer ends before the
\* items do; the handler of _parse_rt_packet swallows it before any update
ParseRaises(data) ==
    \/ Len(data) < 16 + 2 * 34
    \/ Len(data) < 16 + 68 + 2 * 64
    \/ HasTail(data) /\ Len(data) < 16 + 68 + 128 + 4 + 4 * 8
    \/ HasTail(data) /\ Len(data) < 16 + 68 + 128 + 4 + 32 + 4 * 8

\* a decoder that records the device type before it tests the size
ParseRTPacket_TypeFirst(data) ==
    IF TooSmall(data) \/ ParseRaises(data)
    THEN /\ voicemeeter_type' = IF Len(data) > 0 THEN data[1] ELSE voicemeeter_type
         /\ UNCHANGED <<input_levels, output_levels, strip_states, bus_states>>
    ELSE /\ voicemeeter_type' = data[1]
         /\ input_levels' = ParsedInputLevels(data)
         /\ output_levels' = ParsedOutputLevels(data)
         /\ strip_states' = IF HasTail(data) THEN ParsedStripStates(data) ELSE strip_states
         /\ bus_states' = IF HasTail(data) THEN ParsedBusStates(data) ELSE bus_states

\* a decoder that zeroes the bitmasks of a frame without the tail
ParseRTPacket_ZeroMasks(data) ==
    IF TooSmall(data) \/ ParseRaises(data)
    THEN UNCHANGED snapshot
    ELSE /\ voicemeeter_type' = data[1]
         /\ input_levels' = ParsedInputLevels(data)
         /\ output_levels' = ParsedOutputLevels(data)
         /\ strip_states' = IF HasTail(data) THEN ParsedStripStates(data) ELSE Zeros(8)
         /\ bus_states' = IF HasTail(data) THEN ParsedBusStates(data) ELSE Zeros(8)

\* _parse_rt_packet(data): the snapshot after decoding payload data
ParseRTPacket(data) ==
    IF TooSmall(data) \/ ParseRaises(data)
    THEN UNCHANGED snapshot
    ELSE /\ voicemeeter_type' = data[1]
         /\ input_levels' = ParsedInputLevels(data)
         /\ output_levels' = ParsedOutputLevels(data)
         /\ strip_states' = IF HasTail(data) THEN ParsedStripStates(data) ELSE strip_states
         /\ bus_states' = IF HasTail(data) THEN ParsedBusStates(data) ELSE bus_states

\* the thread id a new threading.Thread gets
FreeThread == CHOOSE t \in Threads :
    /\ pc[t] \in {"none", "done"}
    /\ \A u \in Threads : pc[u] \in {"none", "done"} => t <= u

\* what the operating system does with the socket() and bind() calls of start()
OsOutcomes == {"ok", "socket_fails", "bind_fails"}

\* a start() that keeps a socket it already has instead of making a new one
ListenerStartWith_KeepSocket(os) ==
    /\ stop_pc = "idle"
    /\ IF running
       THEN UNCHANGED listenerCtl
       ELSE CASE os = "ok" ->
                    /\ \E t \in Threads : pc[t] \in {"none", "done"}
                    /\ socket' = IF socket = "none" THEN "open" ELSE socket
                    /\ running' = TRUE
                    /\ thread' = FreeThread
                    /\ pc' = [pc EXCEPT ![FreeThread] = "head"]
                    /\ UNCHANGED stop_pc
              [] os = "socket_fails" -> UNCHANGED listenerCtl
              [] os = "bind_fails" ->
                    /\ socket' = "unbound"
                    /\ UNCHANGED <<running, thread, pc, stop_pc>>
    /\ UNCHANGED snapshot
    /\ NothingReceived

\* start(): returns at once when running; otherwise creates and binds the
\* socket and spawns the loop, or fails in socket() or in bind()
ListenerStartWith(os) ==
    /\ stop_pc = "idle"
    /\ IF running
       THEN UNCHANGED listenerCtl
       ELSE CASE os = "ok" ->
                    /\ \E t \in Threads : pc[t] \in {"none", "done"}
                    /\ socket' = "open"
                    /\ running' = TRUE
                    /\ thread' = FreeThread
                    /\ pc' = [pc EXCEPT ![FreeThread] = "head"]
                    /\ UNCHANGED stop_pc
              [] os = "socket_fails" -> UNCHANGED listenerCtl
              [] os = "bind_fails" ->
                    /\ socket' = "unbound"
                    /\ UNCHANGED <<running, thread, pc, stop_pc>>
    /\ UNCHANGED snapshot
    /\ NothingReceived

\* what start() returns
StartResult(os) == IF running THEN "None" ELSE IF os = "ok" THEN "True" ELSE "False"

\* start() under whatever the operating system does
ListenerStart == \E os \in OsOutcomes : ListenerStartWith(os)

\* a stop() that goes to the join without clearing the running flag
ListenerStopBegin_KeepsRunning ==
    /\ stop_pc = "idle"
    /\ stop_pc' = "join"
    /\ UNCHANGED <<running, socket, thread, pc, snapshot>>
    /\ NothingReceived

\* stop(), up to the join: clears the running flag
ListenerStopBegin ==
    /\ stop_pc = "idle"
    /\ running' = FALSE
    /\ stop_pc' = "join"
    /\ UNCHANGED <<socket, thread, pc, snapshot>>
    /\ NothingReceived

\* stop(), after the join returned (the thread ended or the wait expired):
\* closes the socket
ListenerStopFinish ==
    /\ stop_pc = "join"
    /\ socket' = IF socket = "none" THEN "none" ELSE "closed"
    /\ stop_pc' = "idle"
    /\ UNCHANGED <<running, thread, pc, snapshot>>
    /\ NothingReceived

\* start() called on the listener
Start == ListenerStart /\ UNCHANGED <<senderVars, appVars, resVars, auxVars, extVars>>

\* stop() called on the listener
StopBegin == ListenerStopBegin /\ UNCHANGED <<senderVars, appVars, resVars, auxVars, extVars>>

\* stop() returning
StopFinish == ListenerStopFinish /\ UNCHANGED <<senderVars, appVars, resVars, auxVars, extVars>>

\* _listen_thread: the test of `while self.running`
LoopCheck(t) ==
    /\ pc[t] = "head"
    /\ pc' = [pc EXCEPT ![t] = IF running THEN "recv" ELSE "done"]
    /\ UNCHANGED <<running, socket, thread, stop_pc, snapshot>>
    /\ NothingReceived
    /\ UNCHANGED <<senderVars, appVars, resVars, auxVars, extVars>>

\* _listen_thread: recvfrom returns datagram data, which is tested and decoded
LoopRecv(t, data) ==
    /\ pc[t] = "recv"
    /\ socket = "open"
    /\ IF IsRTPacket(data)
       THEN /\ ParseRTPacket(Slice(data, 28, Len(data)))
            /\ last_recv' = [data |-> data, parsed |-> TRUE,
                             payload |-> Slice(data, 28, Len(data)), got |-> TRUE]
       ELSE /\ UNCHANGED snapshot
            /\ last_recv' = [data |-> data, parsed |-> FALSE,
                             payload |-> <<>>, got |-> TRUE]
    /\ last_tail' = IF /\ Len(data) >= 28 + 280
                       /\ SubSeq(data, 1, 4) = VBAN
                       /\ data[5] \div 32 = 3
                       /\ data[7] = 33
                    THEN SubSeq(data, 28 + 213, 28 + 280)
                    ELSE last_tail
    /\ pc' = [pc EXCEPT ![t] = "head"]
    /\ UNCHANGED <<running, socket, thread, stop_pc>>
    /\ UNCHANGED <<senderVars, appVars, resVars, auxVars, extVars>>

\* _listen_thread: recvfrom times out (socket.timeout: continue)
LoopTimeout(t) ==
    /\ pc[t] = "recv"
    /\ socket = "open"
    /\ pc' = [pc EXCEPT ![t] = "head"]
    /\ UNCHANGED <<running, socket, thread, stop_pc, snapshot>>
    /\ NothingReceived
    /\ UNCHANGED <<senderVars, appVars, resVars, auxVars, extVars>>

\* a receive loop that ends when recvfrom raises
LoopError_Exits(t) ==
    /\ pc[t] = "recv"
    /\ socket \in {"open", "closed"}
    /\ pc' = [pc EXCEPT ![t] = "done"]
    /\ UNCHANGED <<running, socket, thread, stop_pc, snapshot>>
    /\ NothingReceived
    /\ UNCHANGED <<senderVars, appVars, resVars, auxVars, extVars>>

\* _listen_thread: recvfrom raises (the socket was closed, or the operating
\* system reports an error on the open one); the handler swallows it
LoopError(t) ==
    /\ pc[t] = "recv"
    /\ socket \in {"open", "closed"}
    /\ pc' = [pc EXCEPT ![t] = "head"]
    /\ UNCHANGED <<running, socket, thread, stop_pc, snapshot>>
    /\ NothingReceived
    /\ UNCHANGED <<senderVars, appVars, resVars, auxVars, extVars>>

\* VBANRTPacketListener.__init__
InitListener ==
    /\ running = FALSE
    /\ socket = "none"
    /\ thread = None
    /\ pc = [t \in Threads |-> "none"]
    /\ stop_pc = "idle"
    /\ voicemeeter_type = None
    /\ input_levels = ZeroLevels(34)
    /\ output_levels = ZeroLevels(64)
    /\ strip_states = Zeros(8)
    /\ bus_states = Zeros(8)
    /\ last_recv = NoRecv
    /\ last_tail = <<>>

\* ------------------------------------------------------------------------
\* VBANSender
\* ------------------------------------------------------------------------

\* the integer 0 as two 16-bit halves
Zero32 == [hi |-> 0, lo |-> 0]

\* c + 1 on an unbounded integer held as halves (hi may pass 65535)
Add1(c) ==
    IF c.lo < 65535 THEN [hi |-> c.hi, lo |-> c.lo + 1]
    ELSE [hi |-> c.hi + 1, lo |-> 0]

\* c - 1, for c > 0
Sub1(c) ==
    IF c.lo > 0 THEN [hi |-> c.hi, lo |-> c.lo - 1]
    ELSE [hi |-> c.hi - 1, lo |-> 65535]

\* c % 0xFFFFFFFF, for 0 <= c < 2 * 0xFFFFFFFF
ModFFFFFFFF(c) ==
    IF c.hi < 65535 \/ (c.hi = 65535 /\ c.lo < 65535) THEN c
    ELSE IF c.hi = 65535 THEN Zero32
    ELSE Add1([hi |-> c.hi - 65536, lo |-> c.lo])

\* (self.frame_counter + 1) % 0xFFFFFFFF
NextFrameCounter(c) == ModFFFFFFFF(Add1(c))

\* the counter packed big-endian
PackUInt_BigEndian(c) == <<c.hi \div 256, c.hi % 256, c.lo \div 256, c.lo % 256>>

\* struct.pack("<I", c)
PackUInt(c) == <<c.lo % 256, c.lo \div 256, c.hi % 256, c.hi \div 256>>

\* whether str.encode("utf-8") succeeds: no lone surrogate
Utf8Encodable(str) == \A i \in 1..Len(str) : str[i] < 55296 \/ str[i] > 57343

\* whether str.encode("ascii") succeeds
AsciiEncodable(str) == \A i \in 1..Len(str) : str[i] < 128

\* the UTF-8 bytes of one code point below 65536
Utf8Char(cp) ==
    IF cp < 128 THEN <<cp>>
    ELSE IF cp < 2048 THEN <<192 + (cp \div 64), 128 + (cp % 64)>>
    ELSE <<224 + (cp \div 4096), 128 + ((cp \div 64) % 64), 128 + (cp % 64)>>

RECURSIVE Utf8(_)
\* str.encode("utf-8")
Utf8(str) == IF str = <<>> THEN <<>> ELSE Utf8Char(Head(str)) \o Utf8(Tail(str))

\* bytearray(n)
ByteArray(n) == [i \in 1..n |-> 0]

\* buf[a:b] = bytes on a bytearray
SliceAssign(buf, a, b, bytes) == Slice(buf, 0, a) \o bytes \o Slice(buf, b, Len(buf))

\* a header whose stream name is not cut at 16 bytes
TextHeader_NoTruncation(name, counter) ==
    LET h0 == SliceAssign(ByteArray(28), 0, 4, VBAN)
        h1 == [h0 EXCEPT ![5] = VBAN_PROTOCOL_TXT, ![6] = 0, ![7] = 0,
                         ![8] = VBAN_DATA_FORMAT]
        stream_bytes == Utf8(name)
        h2 == SliceAssign(h1, 8, 8 + Len(stream_bytes), stream_bytes)
    IN  SliceAssign(h2, 24, 28, PackUInt(counter))

\* the header send_command builds
TextHeader(name, counter) ==
    LET h0 == SliceAssign(ByteArray(28), 0, 4, VBAN)
        h1 == [h0 EXCEPT ![5] = VBAN_PROTOCOL_TXT, ![6] = 0, ![7] = 0,
                         ![8] = VBAN_DATA_FORMAT]
        stream_bytes == Slice(Utf8(name), 0, 16)
        h2 == SliceAssign(h1, 8, 8 + Len(stream_bytes), stream_bytes)
    IN  SliceAssign(h2, 24, 28, PackUInt(counter))

\* a registration header with the subtype in byte 5 instead of byte 6
RegisterHeader_SubtypeInByte5(timeout, name, counter) ==
    LET h0 == SliceAssign(ByteArray(28), 0, 4, VBAN)
        h1 == [h0 EXCEPT ![5] = VBAN_PROTOCOL_SERVICE,
                         ![6] = VBAN_SERVICE_RTPACKETREGISTER, ![7] = 0,
                         ![8] = BitAnd(timeout, 255)]
        stream_bytes == Slice(Utf8(name), 0, 16)
        h2 == SliceAssign(h1, 8, 8 + Len(stream_bytes), stream_bytes)
    IN  SliceAssign(h2, 24, 28, PackUInt(counter))

\* the header register_rt_packet builds
RegisterHeader(timeout, name, counter) ==
    LET h0 == SliceAssign(ByteArray(28), 0, 4, VBAN)
        h1 == [h0 EXCEPT ![5] = VBAN_PROTOCOL_SERVICE, ![6] = 0,
                         ![7] = VBAN_SERVICE_RTPACKETREGISTER,
                         ![8] = BitAnd(timeout, 255)]
        stream_bytes == Slice(Utf8(name), 0, 16)
        h2 == SliceAssign(h1, 8, 8 + Len(stream_bytes), stream_bytes)
    IN  SliceAssign(h2, 24, 28, PackUInt(counter))

\* "Command1", the default stream name
Command1 == <<67, 111, 109, 109, 97, 110, 100, 49>>

\* "VMDeckLinux", the default registration stream name
VMDeckLinux == <<86, 77, 68, 101, 99, 107, 76, 105, 110, 117, 120>>

\* configured stream names: 8 bytes, 16 bytes, 23 bytes
StreamNames ==
    {   Command1,
        <<65, 66, 67, 68, 69, 70, 71, 72, 73, 74, 75, 76, 77, 78, 79, 80>>,
        <<86, 111, 105, 99, 101, 109, 101, 101, 116, 101, 114, 68, 101, 99, 107,
          83, 116, 114, 101, 97, 109, 48, 49>> }

\* "Strip[0].Mute=1;"
MuteCommand == <<83, 116, 114, 105, 112, 91, 48, 93, 46, 77, 117, 116, 101, 61, 49, 59>>

\* command strings: ASCII, non-ASCII, and one holding a lone surrogate
Commands ==
    {   MuteCommand,
        <<83, 116, 114, 105, 112, 91, 48, 93, 46, 76, 97, 98, 101, 108, 61, 233, 59>>,
        <<66, 117, 115, 91, 49, 93, 46, 76, 97, 98, 101, 108, 61, 55296, 59>> }

\* requested registration timeouts
Timeouts == {15, 271}

\* frame counters a sender is followed from: a new sender, and one that is
\* three packets away from 0xFFFFFFFF
StartCounters == {Zero32, [hi |-> 65535, lo |-> 65533]}

NoSend ==
    [got |-> FALSE, kind |-> "none", ok |-> FALSE, raised |-> FALSE, via |-> "none",
     packet |-> <<>>]

\* a call whose exception reaches the caller
SendFails_Propagates(kind) ==
    /\ last_send' = [got |-> TRUE, kind |-> kind, ok |-> FALSE, raised |-> TRUE,
                     via |-> "none", packet |-> <<>>]
    /\ UNCHANGED sent

\* a call that catches the exception of its try block and returns False
\* without transmitting
SendFails(kind) ==
    /\ last_send' = [got |-> TRUE, kind |-> kind, ok |-> FALSE, raised |-> FALSE,
                     via |-> "none", packet |-> <<>>]
    /\ UNCHANGED sent

\* a call that hands packet to the socket via (sendto returns) and returns True
SendSucceedsVia(kind, packet, via) ==
    /\ last_send' = [got |-> TRUE, kind |-> kind, ok |-> TRUE, raised |-> FALSE,
                     via |-> via, packet |-> packet]
    /\ sent' = packet

\* a call that transmits packet over the sender's own socket and returns True
SendSucceeds(kind, packet) == SendSucceedsVia(kind, packet, "sender")

\* VBANSender.send_command of the Linux app; sendto raises when sendto_raises
SendCommandCall(command, sendto_raises) ==
    /\ IF ~Utf8Encodable(stream_name)
       THEN UNCHANGED frame_counter /\ SendFails("command")
       ELSE /\ frame_counter' = NextFrameCounter(frame_counter)
            /\ IF ~Utf8Encodable(command) \/ sendto_raises
               THEN SendFails("command")
               ELSE SendSucceeds("command",
                        TextHeader(stream_name, frame_counter) \o Utf8(command))
    /\ UNCHANGED <<sender_impl, stream_name>>

\* send_command called on a sender that is followed for MaxCalls calls
SendCommand(command, sendto_raises) ==
    /\ sender_impl = "linux-app"
    /\ n_calls < MaxCalls
    /\ n_calls' = n_calls + 1
    /\ SendCommandCall(command, sendto_raises)
    /\ UNCHANGED <<listenerCtl, snapshot, rxVars, appVars, resVars, auxVars, extVars>>

\* VBANSender._build_header of the backend
BuildHeader(name, counter) ==
    LET h0 == SliceAssign(ByteArray(28), 0, 4, VBAN)
        h1 == [h0 EXCEPT ![5] = VBAN_PROTOCOL_TXT, ![6] = 0, ![7] = 0,
                         ![8] = VBAN_DATA_FORMAT]
        stream_bytes == Slice(Utf8(name), 0, 16)
        h2 == SliceAssign(h1, 8, 8 + Len(stream_bytes), stream_bytes)
    IN  SliceAssign(h2, 24, 28, PackUInt(counter))

\* VBANSender.send_command of the backend on a sender whose stream name is
\* name and whose frame counter is counter: the text is encoded (ASCII)
\* before the header is built
BackendSendOn(name, counter, command, sendto_raises) ==
    /\ IF ~AsciiEncodable(command) \/ ~Utf8Encodable(name)
       THEN frame_counter' = counter /\ SendFails("command")
       ELSE /\ frame_counter' = NextFrameCounter(counter)
            /\ IF sendto_raises
               THEN SendFails("command")
               ELSE SendSucceeds("command", BuildHeader(name, counter) \o command)
    /\ stream_name' = name
    /\ UNCHANGED sender_impl

\* send_command called on a backend sender that is followed for MaxCalls
\* calls
BackendSendCommand(command, sendto_raises) ==
    /\ sender_impl = "backend"
    /\ n_calls < MaxCalls
    /\ n_calls' = n_calls + 1
    /\ BackendSendOn(stream_name, frame_counter, command, sendto_raises)
    /\ UNCHANGED <<listenerCtl, snapshot, rxVars, appVars, resVars, auxVars, extVars>>

\* `source_socket or self.socket`: the socket register_rt_packet sends on, the
\* sender's own when it is given None
SendSocket(source_socket) ==
    IF source_socket = "none" THEN "sender" ELSE source_socket

\* VBANSender.register_rt_packet(timeout, stream_name="VMDeckLinux",
\* source_socket); source_socket is "none" or the state of the socket object
\* given. sendto on a closed socket raises; elsewhere it raises when
\* sendto_raises
RegisterRTPacketCall(timeout, source_socket, sendto_raises) ==
    /\ frame_counter' = NextFrameCounter(frame_counter)
    /\ IF sendto_raises \/ SendSocket(source_socket) = "closed"
       THEN SendFails("register")
       ELSE SendSucceedsVia("register",
                RegisterHeader(timeout, VMDeckLinux, frame_counter),
                SendSocket(source_socket))
    /\ UNCHANGED <<sender_impl, stream_name>>

\* register_rt_packet(timeout) called on a sender that is followed for
\* MaxCalls calls
RegisterRTPacket(timeout, sendto_raises) ==
    /\ sender_impl = "linux-app"
    /\ n_calls < MaxCalls
    /\ n_calls' = n_calls + 1
    /\ RegisterRTPacketCall(timeout, "none", sendto_raises)
    /\ UNCHANGED <<listenerCtl, snapshot, rxVars, appVars, resVars, auxVars, extVars>>

\* VBANSender.__init__ of the app's sender
InitSender ==
    /\ sender_impl = "linux-app"
    /\ stream_name = Command1
    /\ frame_counter = Zero32
    /\ sent = <<>>
    /\ last_send = NoSend
    /\ n_calls = 0

\* a sender of either implementation, new or long used (all of its earlier
\* calls having transmitted)
InitAnySender ==
    /\ sender_impl \in {"linux-app", "backend"}
    /\ stream_name \in StreamNames
    /\ frame_counter \in StartCounters
    /\ sent = IF frame_counter = Zero32 THEN <<>>
              ELSE TextHeader(stream_name, Sub1(frame_counter)) \o MuteCommand
    /\ last_send = NoSend
    /\ n_calls = 0

\* ------------------------------------------------------------------------
\* The header code: what the senders build and what a receiver reads
\* ------------------------------------------------------------------------

\* the header send_vban_command of test_vban.py builds: frame counter 0
TestHeader(name) ==
    LET h0 == SliceAssign(ByteArray(28), 0, 4, VBAN)
        h1 == [h0 EXCEPT ![5] = VBAN_PROTOCOL_TXT, ![6] = 0, ![7] = 0,
                         ![8] = VBAN_DATA_FORMAT]
        stream_bytes == Slice(Utf8(name), 0, 16)
        h2 == SliceAssign(h1, 8, 8 + Len(stream_bytes), stream_bytes)
    IN  SliceAssign(h2, 24, 28, PackUInt(Zero32))

\* the packet kinds: send_command of the Linux app, send_command of the
\* backend, register_rt_packet, send_vban_command of test_vban.py
PacketKinds == {"command", "backend_command", "register", "test_command"}

\* stream names: 8 bytes, 16 bytes, 8 bytes with a two-byte character,
\* 23 bytes, and 17 bytes of which the last two are one character
CodecNames ==
    StreamNames \cup
    {   <<77, 233, 108, 97, 110, 103, 101>>,
        <<65, 66, 67, 68, 69, 70, 71, 72, 73, 74, 75, 76, 77, 78, 79, 233>> }

\* frame counters from 0 to 2^32 - 1
CodecCounters ==
    {   Zero32, [hi |-> 0, lo |-> 1], [hi |-> 0, lo |-> 65535], [hi |-> 1, lo |-> 0],
        [hi |-> 4660, lo |-> 22136], [hi |-> 65535, lo |-> 65533],
        [hi |-> 65535, lo |-> 65535] }

\* requested registration timeouts
CodecTimeouts == {0, 15, 255, 271}

CodecInputs ==
    [ kind : PacketKinds, name : CodecNames, counter : CodecCounters,
      timeout : CodecTimeouts, command : {MuteCommand} ]

\* the datagram each sender hands to sendto
EncodeDatagram(in) ==
    CASE in.kind = "command" ->
            TextHeader(in.name, in.counter) \o Utf8(in.command)
      [] in.kind = "backend_command" ->
            BuildHeader(in.name, in.counter) \o in.command
      [] in.kind = "register" ->
            RegisterHeader(in.timeout, in.name, in.counter)
      [] in.kind = "test_command" ->
            TestHeader(in.name) \o Utf8(in.command)

\* the listener's test of a datagram's length and signature
HeaderAccepted(data) == Len(data) >= 28 /\ Slice(data, 0, 4) = VBAN

\* protocol = data[4] & 0xE0
HeaderProtocol(data) == BitAnd(data[5], 224)

\* service_type = data[6]
HeaderSubtype(data) == data[7]

\* a "<I" item as two 16-bit halves
UnpackCounter(data, off) ==
    [hi |-> data[off + 3] + 256 * data[off + 4], lo |-> data[off + 1] + 256 * data[off + 2]]

RECURSIVE StripZeros(_)
\* bytes without their right padding of zero bytes
StripZeros(bytes) ==
    IF bytes = <<>> THEN <<>>
    ELSE IF bytes[Len(bytes)] = 0 THEN StripZeros(SubSeq(bytes, 1, Len(bytes) - 1))
    ELSE bytes

RECURSIVE Utf8Decode(_)
\* the code points of well-formed UTF-8 bytes (of code points below 65536)
Utf8Decode(bytes) ==
    IF bytes = <<>> THEN <<>>
    ELSE IF bytes[1] < 128 THEN <<bytes[1]>> \o Utf8Decode(Tail(bytes))
    ELSE IF bytes[1] < 224
         THEN <<(bytes[1] - 192) * 64 + (bytes[2] - 128)>>
                \o Utf8Decode(SubSeq(bytes, 3, Len(bytes)))
    ELSE <<(bytes[1] - 224) * 4096 + (bytes[2] - 128) * 64 + (bytes[3] - 128)>>
            \o Utf8Decode(SubSeq(bytes, 4, Len(bytes)))

Invalid == [valid |-> FALSE]

\* decodeHeader: invalid for a short buffer or a foreign signature, else
\* the fields of the header
DecodeHeader(data) ==
    IF ~HeaderAccepted(data) THEN Invalid
    ELSE [ valid |-> TRUE,
           signature |-> Slice(data, 0, 4),
           protocol |-> HeaderProtocol(data),
           subtype |-> HeaderSubtype(data),
           format |-> data[8],
           name_bytes |-> StripZeros(Slice(data, 8, 24)),
           counter |-> UnpackCounter(data, 24) ]

NotEncoded == [encoded |-> FALSE, decoded |-> FALSE, data |-> <<>>, header |-> Invalid]

\* a sender builds the datagram of codec_in
Encode ==
    /\ ~codec_out.encoded
    /\ codec_out' = [codec_out EXCEPT !.encoded = TRUE, !.data = EncodeDatagram(codec_in)]
    /\ UNCHANGED <<res_in, res_out, codec_in>>
    /\ UNCHANGED <<listenerCtl, snapshot, rxVars, senderVars, appVars, auxVars, extVars>>

\* a receiver decodes the header of the datagram
Decode ==
    /\ codec_out.encoded
    /\ ~codec_out.decoded
    /\ codec_out' = [codec_out EXCEPT !.decoded = TRUE,
                                      !.header = DecodeHeader(codec_out.data)]
    /\ UNCHANGED <<res_in, res_out, codec_in>>
    /\ UNCHANGED <<listenerCtl, snapshot, rxVars, senderVars, appVars, auxVars, extVars>>

\* nothing to encode
InitCodec ==
    /\ codec_in = [kind |-> "command", name |-> Command1, counter |-> Zero32,
                   timeout |-> 15, command |-> MuteCommand]
    /\ codec_out = NotEncoded

\* ------------------------------------------------------------------------
\* Mixer topology: tables and resolution
\* ------------------------------------------------------------------------

\* what dict.get returns for a missing key, where a profile name is expected
NoProfile == "None"

\* the table with device type 3 left out
VM_TYPE_TO_PROFILE_No3 == (1 :> "standard") @@ (2 :> "banana") @@ (6 :> "potato")

VM_TYPE_TO_PROFILE ==
    (1 :> "standard") @@ (2 :> "banana") @@ (3 :> "potato") @@ (6 :> "potato")

MIXER_PROFILES ==
    [ standard |->
        [ strip_labels |-> <<"HW 1", "HW 2", "Virt 1">>,
          hardware_strips |-> 2,
          bus_labels |-> <<"A", "B">>,
          routing_buses |-> << <<"A1", "A">>, <<"B1", "B">> >> ],
      banana |->
        [ strip_labels |-> <<"HW 1", "HW 2", "HW 3", "Virt 1", "Virt 2">>,
          hardware_strips |-> 3,
          bus_labels |-> <<"A1", "A2", "A3", "B1", "B2">>,
          routing_buses |-> << <<"A1", "A1">>, <<"A2", "A2">>, <<"A3", "A3">>,
                               <<"B1", "B1">>, <<"B2", "B2">> >> ],
      potato |->
        [ strip_labels |-> <<"HW 1", "HW 2", "HW 3", "HW 4", "HW 5",
                             "Virt 1", "Virt 2", "Virt 3">>,
          hardware_strips |-> 5,
          bus_labels |-> <<"A1", "A2", "A3", "A4", "A5", "B1", "B2", "B3">>,
          routing_buses |-> << <<"A1", "A1">>, <<"A2", "A2">>, <<"A3", "A3">>,
                               <<"A4", "A4">>, <<"A5", "A5">>, <<"B1", "B1">>,
                               <<"B2", "B2">>, <<"B3", "B3">> >> ] ]

\* _detect_mixer_type: the profile of the listener's device type, if any
DetectMixerType(has_listener, vm_type) ==
    LET t == IF has_listener THEN vm_type ELSE None
    IN  IF t \in DOMAIN VM_TYPE_TO_PROFILE THEN VM_TYPE_TO_PROFILE[t] ELSE NoProfile

\* _resolve_mixer_type
ResolveMixerType(mixer_type, has_listener, vm_type) ==
    IF mixer_type = "auto"
    THEN LET found == DetectMixerType(has_listener, vm_type)
         IN  IF found # NoProfile THEN found ELSE "banana"
    ELSE IF mixer_type \in DOMAIN MIXER_PROFILES THEN mixer_type ELSE "banana"

\* the arguments _resolve_mixer_type is applied to
ResolveInputs ==
    [ mixer_type : {"auto", "standard", "banana", "potato", "custom"},
      has_listener : BOOLEAN,
      vm_type : {None} \cup (0..255) ]

NoResult == [called |-> FALSE, name |-> NoProfile, profile |-> MIXER_PROFILES["banana"]]

\* one application of _resolve_mixer_type, and the profile looked up from it
Resolve ==
    /\ ~res_out.called
    /\ LET name == ResolveMixerType(res_in.mixer_type, res_in.has_listener, res_in.vm_type)
       IN  res_out' = [called |-> TRUE, name |-> name, profile |-> MIXER_PROFILES[name]]
    /\ UNCHANGED <<res_in, codec_in, codec_out>>
    /\ UNCHANGED <<listenerCtl, snapshot, rxVars, senderVars, appVars, auxVars, extVars>>

InitResolve ==
    /\ res_in = [mixer_type |-> "auto", has_listener |-> FALSE, vm_type |-> None]
    /\ res_out = NoResult
    /\ InitCodec

InitAnyResolve ==
    /\ res_in \in ResolveInputs
    /\ res_out = NoResult
    /\ InitCodec

\* any header to encode, _resolve_mixer_type not applied
InitAnyCodec ==
    /\ res_in = [mixer_type |-> "auto", has_listener |-> FALSE, vm_type |-> None]
    /\ res_out = NoResult
    /\ codec_in \in CodecInputs
    /\ codec_out = NotEncoded

\* ------------------------------------------------------------------------
\* VoicemeeterDeckApp: mixer-type detection
\* ------------------------------------------------------------------------

\* the mixer_type values a configuration file may hold
ConfigMixerTypes == {"auto", "standard", "banana", "potato", "custom"}

\* the mixer types the settings dialog offers
DialogMixerTypes == {"auto", "standard", "banana", "potato"}

\* device types of the frames the application is followed with
AppTypes == {1, 2, 3, 6, 99}

\* the telemetry the application is followed with
AppDatagrams ==
    {Frame(VBAN_PROTOCOL_SERVICE, VBAN_SERVICE_RTPACKET, t, 212, 1) : t \in AppTypes}

\* the VBANSender object a widget was built with: the peer and stream name
\* the object was constructed with, and whether it is the object self.vban
\* refers to
HeldSender(ip, port, name) ==
    [ip |-> ip, port |-> port, name |-> name, current |-> TRUE]

\* a held sender once self.vban refers to another object
Discarded(held) == [held EXCEPT !.current = FALSE]

\* the widget whose mute button is followed: the first strip
FollowedWidget == [is_strip |-> TRUE, index |-> 0]

\* _apply_mixer_type from _clear_mixer_frames on, when it gets there
\* (rebuilt): the strips and buses are built anew with self.vban (vban) and
\* the persisted channel state; otherwise they keep the sender they hold (held)
BuildMixerFrames(rebuilt, vban, held) ==
    /\ muted' = IF rebuilt THEN cfg_muted ELSE muted
    /\ strip_vban' = IF rebuilt THEN vban ELSE held

\* the widgets after an _auto_detect_mixer_type or _apply_mixer_type that
\* leaves self.vban alone
RebuildOnApply ==
    /\ BuildMixerFrames(active_mixer_type' # active_mixer_type,
                        HeldSender(peer_ip, peer_port, stream_name), strip_vban)
    /\ UNCHANGED <<cfg_muted, recorder_vban, last_tx>>

\* _apply_mixer_type: the active mixer type after applying mixer_type
ApplyMixerType(mixer_type, active) ==
    IF mixer_type \notin DOMAIN MIXER_PROFILES THEN active
    ELSE IF mixer_type = active THEN active
    ELSE mixer_type

\* a body of _auto_detect_mixer_type that detects but never applies
AutoDetect_NoApply(scheduled, was_detected) ==
    LET found == DetectMixerType(TRUE, voicemeeter_type)
    IN  IF found # NoProfile
        THEN /\ UNCHANGED active_mixer_type
             /\ pending_polls' = scheduled
             /\ last_poll' = "detected"
             /\ detected' = TRUE
        ELSE /\ UNCHANGED active_mixer_type
             /\ detected' = was_detected
             /\ pending_polls' = scheduled + 1
             /\ last_poll' = "rescheduled"

\* the body of _auto_detect_mixer_type, run while `scheduled` other polls wait;
\* was_detected: whether a poll has detected since auto was last selected
AutoDetect(scheduled, was_detected) ==
    LET found == DetectMixerType(TRUE, voicemeeter_type)
    IN  IF found # NoProfile
        THEN /\ active_mixer_type' =
                    IF found # active_mixer_type
                    THEN ApplyMixerType(found, active_mixer_type)
                    ELSE active_mixer_type
             /\ pending_polls' = scheduled
             /\ last_poll' = "detected"
             /\ detected' = TRUE
        ELSE /\ UNCHANGED active_mixer_type
             /\ detected' = was_detected
             /\ pending_polls' = scheduled + 1
             /\ last_poll' = "rescheduled"

\* __init__, line `self.rt_listener.start()`
AppStartListener ==
    /\ app_pc = "constructed"
    /\ app_pc' = "started"
    /\ ListenerStart
    /\ UNCHANGED <<mixer_type_setting, active_mixer_type, pending_polls, last_poll,
                   detected>>
    /\ UNCHANGED <<senderVars, resVars, auxVars, extVars>>

\* __init__ from _create_ui to its end, then run() entering the main loop
AppInitDetect ==
    /\ app_pc = "started"
    /\ app_pc' = "running"
    /\ IF mixer_type_setting = "auto"
       THEN AutoDetect(pending_polls, detected)
       ELSE UNCHANGED <<active_mixer_type, pending_polls, last_poll, detected>>
    /\ RebuildOnApply
    /\ UNCHANGED mixer_type_setting
    /\ UNCHANGED <<listenerCtl, snapshot, rxVars, senderVars, resVars, auxVars, pluginVars, accVars, timeVars>>

\* a scheduled _auto_detect_mixer_type callback runs
PollFires ==
    /\ app_pc = "running"
    /\ meter_pc = Idle
    /\ pending_polls > 0
    /\ AutoDetect(pending_polls - 1, detected)
    /\ RebuildOnApply
    /\ UNCHANGED <<app_pc, mixer_type_setting>>
    /\ UNCHANGED <<listenerCtl, snapshot, rxVars, senderVars, resVars, auxVars, pluginVars, accVars, timeVars>>

\* _save_config with a configuration whose peer is (ip, port), whose
\* mixer_type is mixer and whose stream name is name: self.vban becomes a new
\* sender; the strips and buses get it only if the mixer type is applied and
\* differs from the active one, the tape recorder never
SaveConfigTo(ip, port, mixer, name) ==
    /\ app_pc = "running"
    /\ meter_pc = Idle
    /\ mixer = "auto" /\ mixer_type_setting # "auto" => pending_polls < MaxPolls
    /\ sender_impl' = "linux-app"
    /\ stream_name' = name
    /\ frame_counter' = Zero32
    /\ last_send' = NoSend
    /\ n_calls' = 0
    /\ UNCHANGED sent
    /\ mixer_type_setting' = mixer
    /\ IF mixer # mixer_type_setting
       THEN IF mixer = "auto"
            THEN AutoDetect(pending_polls, FALSE)
            ELSE /\ active_mixer_type' = ApplyMixerType(mixer, active_mixer_type)
                 /\ last_poll' = "none"
                 /\ UNCHANGED <<pending_polls, detected>>
       ELSE /\ last_poll' = "none"
            /\ UNCHANGED <<active_mixer_type, pending_polls, detected>>
    /\ peer_ip' = ip
    /\ peer_port' = port
    /\ sender_socket' = "open"
    /\ BuildMixerFrames(active_mixer_type' # active_mixer_type,
                        HeldSender(ip, port, name), Discarded(strip_vban))
    /\ recorder_vban' = Discarded(recorder_vban)
    /\ UNCHANGED <<cfg_muted, last_tx>>
    /\ UNCHANGED app_pc
    /\ UNCHANGED <<listenerCtl, snapshot, rxVars, resVars>>
    /\ UNCHANGED <<meterVars, lifeVars, lockVars, kaVars, pluginVars, accVars, timeVars>>

\* _save_config with the peer left as it is
SaveConfig(mixer, name) == SaveConfigTo(peer_ip, peer_port, mixer, name)

\* _save_config when writing the file raises: the handler reports the error
SaveConfigFails ==
    /\ app_pc = "running"
    /\ meter_pc = Idle
    /\ last_poll' = "none"
    /\ UNCHANGED <<app_pc, mixer_type_setting, active_mixer_type, pending_polls, detected>>
    /\ UNCHANGED <<listenerCtl, snapshot, rxVars, senderVars, resVars, auxVars, extVars>>

\* _on_close up to the join inside rt_listener.stop(): _save_channel_states,
\* then stop()
OnClose ==
    /\ app_pc = "running"
    /\ meter_pc = Idle
    /\ app_pc' = "closing"
    /\ cfg_muted' = muted
    /\ ListenerStopBegin
    /\ UNCHANGED <<mixer_type_setting, active_mixer_type, pending_polls, last_poll,
                   detected>>
    /\ UNCHANGED <<muted, strip_vban, recorder_vban, last_tx>>
    /\ UNCHANGED <<senderVars, resVars, auxVars, pluginVars, accVars, timeVars>>

\* _on_close from the return of the join to root.destroy()
CloseFinish ==
    /\ app_pc = "closing"
    /\ app_pc' = "closed"
    /\ ListenerStopFinish
    /\ UNCHANGED <<mixer_type_setting, active_mixer_type, pending_polls, last_poll,
                   detected>>
    /\ UNCHANGED <<senderVars, resVars, auxVars, extVars>>

\* VoicemeeterDeckApp.__init__ up to the construction of the listener, with
\* the default configuration
InitApp ==
    /\ app_pc = "constructed"
    /\ mixer_type_setting = "auto"
    /\ active_mixer_type = ResolveMixerType("auto", FALSE, None)
    /\ pending_polls = 0
    /\ last_poll = "none"
    /\ detected = FALSE

\* the same, with any configuration file
InitAnyApp ==
    /\ app_pc = "constructed"
    /\ mixer_type_setting \in ConfigMixerTypes
    /\ active_mixer_type = ResolveMixerType(mixer_type_setting, FALSE, None)
    /\ pending_polls = 0
    /\ last_poll = "none"
    /\ detected = FALSE

\* ------------------------------------------------------------------------
\* Accessors of the listener, and the meters that call them
\* ------------------------------------------------------------------------

\* a Potato layout whose virtual strips start at channel 8
StripChannelRange_VirtualAt8(vm_type, index) ==
    IF vm_type = 1
    THEN IF index < 2 THEN <<index * 2, 2>> ELSE <<4 + (index - 2) * 8, 8>>
    ELSE IF vm_type = 2
    THEN IF index < 3 THEN <<index * 2, 2>> ELSE <<6 + (index - 3) * 8, 8>>
    ELSE IF vm_type \in {3, 6}
    THEN IF index < 5 THEN <<index * 2, 2>> ELSE <<8 + (index - 5) * 8, 8>>
    ELSE <<index * 2, 2>>

\* _strip_channel_range: (base, count) of strip index, from the device type
StripChannelRange(vm_type, index) ==
    IF vm_type = 1
    THEN IF index < 2 THEN <<index * 2, 2>> ELSE <<4 + (index - 2) * 8, 8>>
    ELSE IF vm_type = 2
    THEN IF index < 3 THEN <<index * 2, 2>> ELSE <<6 + (index - 3) * 8, 8>>
    ELSE IF vm_type \in {3, 6}
    THEN IF index < 5 THEN <<index * 2, 2>> ELSE <<10 + (index - 5) * 8, 8>>
    ELSE <<index * 2, 2>>

\* _bus_channel_range
BusChannelRange(index) == <<index * 8, 8>>

\* a < b on stored levels
LevelLess(a, b) == a.num * b.den < b.num * a.den

\* -100.0
Floor == [num |-> -100, den |-> 1]

\* a body of _level_from_range that returns the first level of the range
LevelFromRange_First(levels, base, count) ==
    IF base < 0 \/ base >= Len(levels) THEN Floor
    ELSE LET end == IF base + count < Len(levels) THEN base + count ELSE Len(levels)
         IN  IF end <= base THEN Floor ELSE levels[base + 1]

\* _level_from_range: max(levels[base:end]), or -100.0 off the list
LevelFromRange(levels, base, count) ==
    IF base < 0 \/ base >= Len(levels) THEN Floor
    ELSE LET end == IF base + count < Len(levels) THEN base + count ELSE Len(levels)
             window == Slice(levels, base, end)
         IN  IF end <= base THEN Floor
             ELSE window[CHOOSE k \in 1..Len(window) :
                            /\ \A j \in 1..Len(window) : ~LevelLess(window[k], window[j])
                            /\ \A j \in 1..(k - 1) : LevelLess(window[j], window[k])]

\* get_input_level
GetInputLevel(index) ==
    LET range == StripChannelRange(voicemeeter_type, index)
    IN  LevelFromRange(input_levels, range[1], range[2])

\* get_output_level
GetOutputLevel(index) ==
    LET range == BusChannelRange(index)
    IN  LevelFromRange(output_levels, range[1], range[2])

\* a get_strip_state that indexes the list with any index, as Python's
\* list indexing wraps a negative one
GetStripState_Wraps(index) == strip_states[(index % Len(strip_states)) + 1]

\* get_strip_state
GetStripState(index) ==
    IF 0 <= index /\ index < Len(strip_states) THEN strip_states[index + 1] ELSE None

\* get_bus_state
GetBusState(index) ==
    IF 0 <= index /\ index < Len(bus_states) THEN bus_states[index + 1] ELSE None

NoRead == [got |-> FALSE, is_strip |-> FALSE, index |-> 0, state |-> None,
           synced |-> FALSE, muted |-> FALSE, buttons |-> {}, routed |-> {},
           range |-> <<>>, level |-> Floor]

\* self.routing_buttons of a strip built for the active profile: one button
\* per routing bus of the profile (none on a bus)
RoutingButtons(is_strip) ==
    IF is_strip
    THEN LET routing_buses == MIXER_PROFILES[active_mixer_type].routing_buses
         IN  {routing_buses[k][1] : k \in DOMAIN routing_buses}
    ELSE {}

\* _sync_from_rt_state for a mask: what set_mute_state and the routing
\* buttons' set_state are called with
SyncFromRTState(is_strip, state) ==
    IF state = None
    THEN [synced |-> FALSE, muted |-> FALSE, buttons |-> RoutingButtons(is_strip),
          routed |-> {}]
    ELSE [synced |-> TRUE,
          muted |-> BitAnd(state, VMRTSTATE_MODE_MUTE) # 0,
          buttons |-> RoutingButtons(is_strip),
          routed |-> {bus_key \in RoutingButtons(is_strip) :
                        /\ bus_key \in DOMAIN ROUTING_STATE_BITS
                        /\ BitAnd(state, ROUTING_STATE_BITS[bus_key]) # 0}]

\* the widgets _build_mixer_frames creates for the active profile
Widgets ==
    LET profile == MIXER_PROFILES[active_mixer_type]
    IN  {[is_strip |-> TRUE, index |-> i] : i \in 0..(Len(profile.strip_labels) - 1)}
        \cup {[is_strip |-> FALSE, index |-> i] : i \in 0..(Len(profile.bus_labels) - 1)}

\* _update_meter of widget w, up to the return of _sync_from_rt_state
UpdateMeterSync(w) ==
    /\ app_pc = "running"
    /\ meter_pc = Idle
    /\ w \in Widgets
    /\ meter_pc' = w
    /\ LET state == IF w.is_strip THEN GetStripState(w.index)
                    ELSE GetBusState(w.index)
           sync == SyncFromRTState(w.is_strip, state)
       IN  last_read' = [got |-> TRUE, is_strip |-> w.is_strip, index |-> w.index,
                         state |-> state,
                         synced |-> sync.synced, muted |-> sync.muted,
                         buttons |-> sync.buttons, routed |-> sync.routed,
                         range |-> <<>>, level |-> Floor]
           /\ muted' = IF w = FollowedWidget /\ sync.synced THEN sync.muted ELSE muted
    /\ UNCHANGED <<cfg_muted, strip_vban, recorder_vban, last_tx, pluginVars, accVars, timeVars>>
    /\ UNCHANGED <<listenerCtl, snapshot, rxVars, senderVars, appVars, resVars, lifeVars, lockVars, kaVars, cfgVars>>

\* _update_meter, from the level read to meter.set_level
UpdateMeterLevel ==
    /\ meter_pc # Idle
    /\ meter_pc' = Idle
    /\ last_read' =
          [last_read EXCEPT
              !.range = IF meter_pc.is_strip
                        THEN StripChannelRange(voicemeeter_type, meter_pc.index)
                        ELSE BusChannelRange(meter_pc.index),
              !.level = IF meter_pc.is_strip THEN GetInputLevel(meter_pc.index)
                        ELSE GetOutputLevel(meter_pc.index)]
    /\ UNCHANGED <<listenerCtl, snapshot, rxVars, senderVars, appVars, resVars, lifeVars, lockVars, kaVars, cfgVars, extVars>>

\* no meter has run
InitMeter ==
    /\ meter_pc = Idle
    /\ last_read = NoRead

\* ------------------------------------------------------------------------
\* A client that starts and stops the listener
\* ------------------------------------------------------------------------

\* no receive loop is left and the socket is closed
CleanStopped ==
    /\ ~running
    /\ stop_pc = "idle"
    /\ socket = "closed"
    /\ \A t \in Threads : pc[t] \in {"none", "done"}

\* the threads that are inside `while self.running`
Loops == {t \in Threads : pc[t] \in {"head", "recv"}}

NoStart == [seq |-> 0, os |-> "ok", clean |-> FALSE, ret |-> "None"]

\* start() called by a client that keeps the result
StartCall(os) ==
    /\ ListenerStartWith(os)
    /\ last_start' = [seq |-> 1 - last_start.seq, os |-> os, clean |-> CleanStopped,
                      ret |-> StartResult(os)]
    /\ UNCHANGED <<senderVars, appVars, resVars, meterVars, lockVars, kaVars, cfgVars, extVars>>

InitLife == last_start = NoStart

\* ------------------------------------------------------------------------
\* self.lock: the snapshot update and its readers, statement by statement
\* ------------------------------------------------------------------------

\* the UI (main) thread as a holder of the lock
UI == 0

\* the frames the loop decodes while its lock is followed
LockDatagrams ==
    { Frame(VBAN_PROTOCOL_SERVICE, VBAN_SERVICE_RTPACKET, 6, 280, 1),
      Frame(VBAN_PROTOCOL_SERVICE, VBAN_SERVICE_RTPACKET, 2, 280, 2),
      Frame(VBAN_PROTOCOL_SERVICE, VBAN_SERVICE_RTPACKET, 2, 279, 1) }

\* the device type and the levels are those of one frame (or the initial
\* ones), and so are the two lists of masks
SnapshotOfOneFrame ==
    /\ \/ /\ voicemeeter_type = None
          /\ input_levels = ZeroLevels(34)
          /\ output_levels = ZeroLevels(64)
       \/ \E d \in LockDatagrams :
            LET p == Slice(d, 28, Len(d))
            IN  /\ voicemeeter_type = p[1]
                /\ input_levels = ParsedInputLevels(p)
                /\ output_levels = ParsedOutputLevels(p)
    /\ \/ strip_states = Zeros(8) /\ bus_states = Zeros(8)
       \/ \E d \in LockDatagrams :
            LET p == Slice(d, 28, Len(d))
            IN  /\ HasTail(p)
                /\ strip_states = ParsedStripStates(p)
                /\ bus_states = ParsedBusStates(p)

NoAccess == [got |-> FALSE, who |-> "none", field |-> "none", locked |-> FALSE,
             consistent |-> TRUE]

NoOp == [kind |-> "none", index |-> 0]

\* the accessor calls the UI thread is followed through
AccessorOps ==
    { [kind |-> "get_input_level", index |-> 3],
      [kind |-> "get_bus_state", index |-> 0] }

\* _listen_thread: recvfrom returns data; the header test, and
\* _parse_rt_packet up to `with self.lock`
RecvFrame(t, data) ==
    /\ pc[t] = "recv"
    /\ socket = "open"
    /\ n_frames < MaxFrames
    /\ LET payload == Slice(data, 28, Len(data))
           decodes == IsRTPacket(data) /\ ~TooSmall(payload) /\ ~ParseRaises(payload)
       IN  /\ pc' = [pc EXCEPT ![t] = IF decodes THEN "acquire" ELSE "head"]
           /\ pending' = [pending EXCEPT ![t] = IF decodes THEN payload ELSE <<>>]
           /\ n_frames' = IF decodes THEN n_frames + 1 ELSE n_frames
           /\ last_recv' = [data |-> data, parsed |-> IsRTPacket(data),
                            payload |-> IF IsRTPacket(data) THEN payload ELSE <<>>,
                            got |-> TRUE]
           /\ last_tail' = IF decodes /\ HasTail(payload)
                           THEN SubSeq(payload, 213, 280) ELSE last_tail
    /\ UNCHANGED <<running, socket, thread, stop_pc, snapshot>>
    /\ UNCHANGED <<lock, debug_counter, ui_pc, ui_op, last_access>>
    /\ UNCHANGED <<senderVars, appVars, resVars, meterVars, lifeVars, kaVars, cfgVars, extVars>>

\* _parse_rt_packet: `with self.lock` is entered
ParseAcquire(t) ==
    /\ pc[t] = "acquire"
    /\ lock = None
    /\ lock' = t
    /\ pc' = [pc EXCEPT ![t] = "voicemeeter_type"]
    /\ UNCHANGED <<running, socket, thread, stop_pc, snapshot, rxVars>>
    /\ UNCHANGED <<pending, debug_counter, n_frames, ui_pc, ui_op, last_access>>
    /\ UNCHANGED <<senderVars, appVars, resVars, meterVars, lifeVars, kaVars, cfgVars, extVars>>

\* the statement after the assignment of field in the with-block
AfterWrite(field, data) ==
    CASE field = "voicemeeter_type" -> "input_levels"
      [] field = "input_levels" -> "output_levels"
      [] field = "output_levels" -> IF HasTail(data) THEN "strip_states" ELSE "release"
      [] field = "strip_states" -> "bus_states"
      [] field = "bus_states" -> "release"

SnapshotFields ==
    {"voicemeeter_type", "input_levels", "output_levels", "strip_states", "bus_states"}

\* _parse_rt_packet: one assignment of the with-block
ParseWrite(t) ==
    /\ pc[t] \in SnapshotFields
    /\ LET data == pending[t]
           field == pc[t]
       IN  /\ voicemeeter_type' =
                 IF field = "voicemeeter_type" THEN data[1] ELSE voicemeeter_type
           /\ input_levels' =
                 IF field = "input_levels" THEN ParsedInputLevels(data) ELSE input_levels
           /\ output_levels' =
                 IF field = "output_levels" THEN ParsedOutputLevels(data) ELSE output_levels
           /\ strip_states' =
                 IF field = "strip_states" THEN ParsedStripStates(data) ELSE strip_states
           /\ bus_states' =
                 IF field = "bus_states" THEN ParsedBusStates(data) ELSE bus_states
           /\ pc' = [pc EXCEPT ![t] = AfterWrite(field, data)]
           /\ last_access' = [got |-> TRUE, who |-> "loop", field |-> field,
                              locked |-> (lock = t), consistent |-> TRUE]
    /\ UNCHANGED <<running, socket, thread, stop_pc, rxVars>>
    /\ UNCHANGED <<lock, pending, debug_counter, n_frames, ui_pc, ui_op>>
    /\ UNCHANGED <<senderVars, appVars, resVars, meterVars, lifeVars, kaVars, cfgVars, extVars>>

\* self._debug_counter after `self._debug_counter += 1`, modulo 50
NextDebugCounter == IF debug_counter = None THEN 1 ELSE (debug_counter + 1) % 50

\* a with-block whose exit leaves the lock held
ParseRelease_KeepsLock(t) ==
    /\ pc[t] = "release"
    /\ debug_counter' = NextDebugCounter
    /\ pc' = [pc EXCEPT ![t] = IF NextDebugCounter = 0 THEN "debug" ELSE "head"]
    /\ pending' = [pending EXCEPT ![t] = <<>>]
    /\ UNCHANGED <<running, socket, thread, stop_pc, snapshot, rxVars>>
    /\ UNCHANGED <<lock, n_frames, ui_pc, ui_op, last_access>>
    /\ UNCHANGED <<senderVars, appVars, resVars, meterVars, lifeVars, kaVars, cfgVars, extVars>>

\* _parse_rt_packet: the with-block is left, the debug counter advanced
ParseRelease(t) ==
    /\ pc[t] = "release"
    /\ lock' = None
    /\ debug_counter' = NextDebugCounter
    /\ pc' = [pc EXCEPT ![t] = IF NextDebugCounter = 0 THEN "debug" ELSE "head"]
    /\ pending' = [pending EXCEPT ![t] = <<>>]
    /\ UNCHANGED <<running, socket, thread, stop_pc, snapshot, rxVars>>
    /\ UNCHANGED <<n_frames, ui_pc, ui_op, last_access>>
    /\ UNCHANGED <<senderVars, appVars, resVars, meterVars, lifeVars, kaVars, cfgVars, extVars>>

\* _parse_rt_packet: every 50th frame the levels are read for a debug print
ParseDebug(t) ==
    /\ pc[t] = "debug"
    /\ pc' = [pc EXCEPT ![t] = "head"]
    /\ last_access' = [got |-> TRUE, who |-> "loop", field |-> "input_levels",
                       locked |-> (lock = t), consistent |-> SnapshotOfOneFrame]
    /\ UNCHANGED <<running, socket, thread, stop_pc, snapshot, rxVars>>
    /\ UNCHANGED <<lock, pending, debug_counter, n_frames, ui_pc, ui_op>>
    /\ UNCHANGED <<senderVars, appVars, resVars, meterVars, lifeVars, kaVars, cfgVars, extVars>>

\* an accessor (get_input_level, ..., get_bus_state) enters `with self.lock`
AccessorEnter(op) ==
    /\ ui_pc = "idle"
    /\ lock = None
    /\ lock' = UI
    /\ ui_pc' = "locked"
    /\ ui_op' = op
    /\ UNCHANGED <<listenerCtl, snapshot, rxVars>>
    /\ UNCHANGED <<pending, debug_counter, n_frames, last_access>>
    /\ UNCHANGED <<senderVars, appVars, resVars, meterVars, lifeVars, kaVars, cfgVars, extVars>>

\* the accessor reads the snapshot and returns, leaving the with-block
AccessorReturn ==
    /\ ui_pc = "locked"
    /\ last_access' = [got |-> TRUE, who |-> "accessor", field |-> ui_op.kind,
                       locked |-> (lock = UI), consistent |-> SnapshotOfOneFrame]
    /\ lock' = None
    /\ ui_pc' = "idle"
    /\ ui_op' = NoOp
    /\ UNCHANGED <<listenerCtl, snapshot, rxVars>>
    /\ UNCHANGED <<pending, debug_counter, n_frames>>
    /\ UNCHANGED <<senderVars, appVars, resVars, meterVars, lifeVars, kaVars, cfgVars, extVars>>

\* _detect_mixer_type reads listener.voicemeeter_type
DetectRead ==
    /\ ui_pc = "idle"
    /\ last_access' = [got |-> TRUE, who |-> "_detect_mixer_type",
                       field |-> "voicemeeter_type",
                       locked |-> (lock = UI), consistent |-> SnapshotOfOneFrame]
    /\ UNCHANGED <<listenerCtl, snapshot, rxVars>>
    /\ UNCHANGED <<lock, pending, debug_counter, n_frames, ui_pc, ui_op>>
    /\ UNCHANGED <<senderVars, appVars, resVars, meterVars, lifeVars, kaVars, cfgVars, extVars>>

\* send_command on the UI thread, up to the call of socket.sendto
UiSendBegin ==
    /\ ui_pc = "idle"
    /\ n_calls < MaxUiSends
    /\ ui_pc' = "sendto"
    /\ UNCHANGED <<listenerCtl, snapshot, rxVars>>
    /\ UNCHANGED <<lock, pending, debug_counter, n_frames, ui_op, last_access>>
    /\ UNCHANGED <<senderVars, appVars, resVars, meterVars, lifeVars, kaVars, cfgVars, extVars>>

\* socket.sendto returns or raises, and send_command returns
UiSendEnd(sendto_raises) ==
    /\ ui_pc = "sendto"
    /\ ui_pc' = "idle"
    /\ SendCommandCall(MuteCommand, sendto_raises)
    /\ n_calls' = n_calls + 1
    /\ UNCHANGED <<listenerCtl, snapshot, rxVars>>
    /\ UNCHANGED <<lock, pending, debug_counter, n_frames, ui_op, last_access>>
    /\ UNCHANGED <<appVars, resVars, meterVars, lifeVars, kaVars, cfgVars, extVars>>

\* threading.Lock() of __init__, nobody inside
InitLock ==
    /\ lock = None
    /\ pending = [t \in Threads |-> <<>>]
    /\ debug_counter = None
    /\ n_frames = 0
    /\ ui_pc = "idle"
    /\ ui_op = NoOp
    /\ last_access = NoAccess

\* ------------------------------------------------------------------------
\* The keep-alive schedule of the application
\* ------------------------------------------------------------------------

\* a call by source on a sender object: the peer the object sends to, the
\* stream name of the datagram, and whether the datagram was transmitted
CalledOn(source, sender, ok) ==
    last_tx' = [seq |-> 1 - last_tx.seq, source |-> source, ip |-> sender.ip,
                port |-> sender.port, name |-> sender.name, ok |-> ok]

\* timeout=15 of the registration the application sends, in seconds
KeepAliveTimeout == 15

\* root.after(10000, ...): the delay of the next tick, in seconds
KeepAliveInterval == 10

\* the time a tick leaves behind: when it ran, when the callback it schedules
\* with root.after is due, and when the registration it sent (if registered)
\* runs out at the peer
Scheduled(interval, registered) ==
    /\ last_tick_at' = clock
    /\ ka_due' = clock + interval
    /\ reg_expires' = IF registered THEN clock + KeepAliveTimeout ELSE reg_expires
    /\ UNCHANGED clock

\* a tick that schedules the next one only when its registration was sent
PeriodicRTRegistration_StopsOnFailure(scheduled, sendto_raises) ==
    /\ RegisterRTPacketCall(KeepAliveTimeout, socket, sendto_raises)
    /\ n_calls' = n_calls + 1
    /\ ka_pending' = IF sendto_raises \/ socket = "closed" THEN scheduled
                     ELSE scheduled + 1
    /\ ticks' = ticks + 1
    /\ CalledOn("keepalive", HeldSender(peer_ip, peer_port, VMDeckLinux),
                ~(sendto_raises \/ socket = "closed"))
    /\ Scheduled(KeepAliveInterval, ~(sendto_raises \/ socket = "closed"))
    /\ UNCHANGED <<muted, cfg_muted, strip_vban, recorder_vban, pluginVars, accVars>>
    /\ UNCHANGED <<listenerCtl, snapshot, rxVars, appVars, resVars>>
    /\ UNCHANGED <<meterVars, lifeVars, lockVars, cfgVars>>

\* _periodic_rt_registration with scheduled other calls of it outstanding:
\* one registration with the listener's socket object as source_socket (a
\* False result is ignored, register_rt_packet lets no exception out), then
\* root.after(10000, self._periodic_rt_registration)
PeriodicRTRegistrationEvery(interval, scheduled, sendto_raises) ==
    /\ RegisterRTPacketCall(KeepAliveTimeout, socket, sendto_raises)
    /\ n_calls' = n_calls + 1
    /\ ka_pending' = scheduled + 1
    /\ ticks' = ticks + 1
    /\ CalledOn("keepalive", HeldSender(peer_ip, peer_port, VMDeckLinux),
                ~(sendto_raises \/ socket = "closed"))
    /\ Scheduled(interval, ~(sendto_raises \/ socket = "closed"))
    /\ UNCHANGED <<muted, cfg_muted, strip_vban, recorder_vban, pluginVars, accVars>>
    /\ UNCHANGED <<listenerCtl, snapshot, rxVars, appVars, resVars>>
    /\ UNCHANGED <<meterVars, lifeVars, lockVars, cfgVars>>

\* a tick that schedules the next one 20 s later
PeriodicRTRegistration_Every20s(scheduled, sendto_raises) ==
    PeriodicRTRegistrationEvery(20, scheduled, sendto_raises)

PeriodicRTRegistration(scheduled, sendto_raises) ==
    PeriodicRTRegistrationEvery(KeepAliveInterval, scheduled, sendto_raises)

\* run(): the first _periodic_rt_registration, then root.mainloop()
Run(sendto_raises) ==
    /\ app_pc = "running"
    /\ ticks = 0
    /\ PeriodicRTRegistration(ka_pending, sendto_raises)

\* the main loop serves callbacks: run() has reached root.mainloop()
InMainLoop == app_pc = "running" /\ ticks > 0

\* a scheduled _periodic_rt_registration callback runs
KeepAliveFires(sendto_raises) ==
    /\ InMainLoop
    /\ meter_pc = Idle
    /\ ka_pending > 0
    /\ ticks < MaxTicks
    /\ PeriodicRTRegistration(ka_pending - 1, sendto_raises)

\* the main loop runs the scheduled tick when it is due
KeepAliveDue(sendto_raises) ==
    /\ clock = ka_due
    /\ KeepAliveFires(sendto_raises)

\* a second passes: not between the constructor and run(), which follows it
\* at once, and not past a callback that is due
TimePasses ==
    /\ app_pc = "running" => ticks > 0
    /\ ka_pending > 0 => clock < ka_due
    /\ clock < MaxClock
    /\ clock' = clock + 1
    /\ UNCHANGED <<last_tick_at, ka_due, reg_expires>>
    /\ UNCHANGED <<listenerCtl, snapshot, rxVars, senderVars, appVars, resVars, auxVars>>
    /\ UNCHANGED <<widgetVars, pluginVars, accVars>>

\* no keep-alive before run()
InitKeepAlive ==
    /\ ka_pending = 0
    /\ ticks = 0

\* ------------------------------------------------------------------------
\* Construction of a sender
\* ------------------------------------------------------------------------

\* VBANSender.__init__(ip, port, stream_name) of either implementation: the
\* arguments are stored as given and the socket is created
VBANSenderInit(impl, ip, port, name) ==
    /\ sender_impl' = impl
    /\ peer_ip' = ip
    /\ peer_port' = port
    /\ stream_name' = name
    /\ frame_counter' = Zero32
    /\ sender_socket' = "open"
    /\ last_send' = NoSend
    /\ n_calls' = 0
    /\ UNCHANGED sent
    /\ UNCHANGED <<listenerCtl, snapshot, rxVars, appVars, resVars>>
    /\ UNCHANGED <<meterVars, lifeVars, lockVars, kaVars, extVars>>

\* host strings socket.sendto resolves
ResolvableHosts == {"192.168.1.212", "192.168.1.100"}

\* socket.sendto(packet, (ip, port)) raises for a host it cannot resolve
\* and for a port outside 0..65535
SendtoRejects(ip, port) == ip \notin ResolvableHosts \/ port \notin 0..65535

\* a call on the constructed sender; sendto raises for the peer it rejects,
\* and otherwise when sendto_raises
ConfiguredSendCommand(command, sendto_raises) ==
    /\ sender_socket = "open"
    /\ SendtoRejects(peer_ip, peer_port) => sendto_raises
    /\ \/ SendCommand(command, sendto_raises)
       \/ BackendSendCommand(command, sendto_raises)

\* the sender of the application with DEFAULT_CONFIG
InitPeer ==
    /\ peer_ip = "192.168.1.212"
    /\ peer_port = 6980
    /\ sender_socket = "open"

\* no sender constructed yet
NoSenderYet ==
    /\ peer_ip = ""
    /\ peer_port = 0
    /\ sender_socket = "none"

\* no call made on a sender yet
NoTx == [seq |-> 0, source |-> "none", ip |-> "", port |-> 0, name |-> <<>>,
         ok |-> FALSE]

\* the widgets _create_ui builds with the app's sender and a configuration
\* without persisted channel state
InitWidgets ==
    /\ muted = FALSE
    /\ cfg_muted = FALSE
    /\ strip_vban = HeldSender(peer_ip, peer_port, stream_name)
    /\ recorder_vban = HeldSender(peer_ip, peer_port, stream_name)
    /\ last_tx = NoTx

\* "Strip[0].Mute=0;"
UnmuteCommand == [MuteCommand EXCEPT ![15] = 48]

\* "Recorder.Play=1;"
RecorderPlay == <<82, 101, 99, 111, 114, 100, 101, 114, 46, 80, 108, 97, 121, 61, 49, 59>>

\* send_command(command) on the sender object a widget holds (held), by
\* source: the app's sender when the widget holds self.vban, else an object
\* the application has let go of, whose counter is no longer followed
WidgetSend(source, held, command, sendto_raises) ==
    /\ IF held.current
       THEN /\ n_calls < MaxCalls
            /\ n_calls' = n_calls + 1
            /\ SendCommandCall(command, sendto_raises)
       ELSE UNCHANGED senderVars
    /\ CalledOn(source, held, Utf8Encodable(held.name) /\ ~sendto_raises)

\* ChannelStrip._on_mute_click of the first strip
MuteClick(sendto_raises) ==
    /\ app_pc = "running"
    /\ meter_pc = Idle
    /\ muted' = ~muted
    /\ WidgetSend("strip", strip_vban, IF ~muted THEN MuteCommand ELSE UnmuteCommand,
                  sendto_raises)
    /\ UNCHANGED <<cfg_muted, strip_vban, recorder_vban, pluginVars, accVars, timeVars>>
    /\ UNCHANGED <<listenerCtl, snapshot, rxVars, appVars, resVars, auxVars>>

\* the play button of the TapeRecorder: vban.recorder_play of the sender the
\* recorder was built with
RecorderClick(sendto_raises) ==
    /\ app_pc = "running"
    /\ meter_pc = Idle
    /\ WidgetSend("recorder", recorder_vban, RecorderPlay, sendto_raises)
    /\ UNCHANGED <<muted, cfg_muted, strip_vban, recorder_vban, pluginVars, accVars, timeVars>>
    /\ UNCHANGED <<listenerCtl, snapshot, rxVars, appVars, resVars, auxVars>>

\* DEFAULT_SETTINGS, as _load_settings returns them without a settings file
DEFAULT_SETTINGS ==
    [pc_ip |-> "192.168.1.100", vban_port |-> 6980, stream_name |-> Command1]

\* the indices of the strips and buses the Plugin is followed for
PluginIndices == {0, 1}

NoCall == [seq |-> 0, op |-> "none", is_strip |-> FALSE, index |-> 0,
           ret |-> "None", socket |-> "none"]

\* class Plugin: no sender, nothing remembered
InitPlugin ==
    /\ settings = DEFAULT_SETTINGS
    /\ strip_mute_states = [i \in PluginIndices |-> FALSE]
    /\ bus_mute_states = [i \in PluginIndices |-> FALSE]
    /\ last_call = NoCall

\* ------------------------------------------------------------------------
\* Plugin (backend)
\* ------------------------------------------------------------------------

\* settings["pc_ip"], settings["vban_port"], settings["stream_name"] exist
Usable(loaded) == {"pc_ip", "vban_port", "stream_name"} \subseteq DOMAIN loaded

\* what the frontend saves: the defaults, another peer, and settings that
\* lack the port and the stream name
SettingsFiles ==
    { DEFAULT_SETTINGS,
      [pc_ip |-> "192.168.1.212", vban_port |-> 6981, stream_name |-> Command1],
      [pc_ip |-> "192.168.1.212"] }

\* f"Strip[{index}].Mute={1 if new_state else 0};" and the same for a bus
ToggleCommand(is_strip, index, new_state) ==
    (IF is_strip THEN <<83, 116, 114, 105, 112>> ELSE <<66, 117, 115>>)
        \o <<91, 48 + index, 93, 46, 77, 117, 116, 101, 61,
             IF new_state THEN 49 ELSE 48, 59>>

\* "Strip[0].Gain=-6.0;" of set_strip_param(0, "Gain", -6.0)
ParamCommand ==
    <<83, 116, 114, 105, 112, 91, 48, 93, 46, 71, 97, 105, 110, 61, 45, 54, 46, 48, 59>>

\* "Command.Restart=0;" of test_connection
RestartCommand ==
    <<67, 111, 109, 109, 97, 110, 100, 46, 82, 101, 115, 116, 97, 114, 116, 61, 48, 59>>

\* the result of a Plugin method: what it returned, or that it raised, and
\* the state of the socket of the sender it sent on ("none": it sent nothing)
Called(op, is_strip, index, ret, sock) ==
    last_call' = [seq |-> 1 - last_call.seq, op |-> op, is_strip |-> is_strip,
                  index |-> index, ret |-> ret, socket |-> sock]

\* sender = self._get_vban_sender(); return sender.send_command(command):
\* without a sender one is constructed from the loaded settings (a missing
\* key raises KeyError out of _get_vban_sender); sendto on a closed socket
\* raises inside send_command, which returns False
GetSenderAndSend(op, is_strip, index, command, sendto_raises, catches) ==
    IF sender_socket = "none" /\ ~Usable(settings)
    THEN /\ Called(op, is_strip, index, IF catches THEN "False" ELSE "raised", "none")
         /\ UNCHANGED <<senderVars, cfgVars>>
    ELSE LET fresh == sender_socket = "none"
         IN  /\ ~fresh => n_calls < MaxCalls
             /\ n_calls' = IF fresh THEN 1 ELSE n_calls + 1
             /\ peer_ip' = IF fresh THEN settings.pc_ip ELSE peer_ip
             /\ peer_port' = IF fresh THEN settings.vban_port ELSE peer_port
             /\ sender_socket' = IF fresh THEN "open" ELSE sender_socket
             /\ BackendSendOn(IF fresh THEN settings.stream_name ELSE stream_name,
                              IF fresh THEN Zero32 ELSE frame_counter,
                              command, sendto_raises \/ sender_socket = "closed")
             /\ Called(op, is_strip, index, IF last_send'.ok THEN "True" ELSE "False",
                       sender_socket')

\* what a Plugin method leaves alone besides the sender and its own fields
PluginFrame ==
    /\ UNCHANGED <<listenerCtl, snapshot, rxVars, appVars, resVars>>
    /\ UNCHANGED <<meterVars, lifeVars, lockVars, kaVars>>
    /\ UNCHANGED <<widgetVars, accVars, timeVars>>

\* save_settings(new_settings): the file is written (an error is logged and
\* swallowed), then _recreate_vban_sender closes the sender and constructs a
\* new one from the settings it loads; a missing key raises KeyError after
\* the close and leaves vban_sender as it is
SaveSettings(new_settings, write_fails) ==
    LET loaded == IF write_fails THEN settings ELSE new_settings
    IN  /\ settings' = loaded
        /\ IF Usable(loaded)
           THEN /\ sender_impl' = "backend"
                /\ peer_ip' = loaded.pc_ip
                /\ peer_port' = loaded.vban_port
                /\ stream_name' = loaded.stream_name
                /\ frame_counter' = Zero32
                /\ sender_socket' = "open"
                /\ n_calls' = 0
                /\ UNCHANGED <<sent, last_send>>
                /\ Called("save_settings", FALSE, 0, "None", "none")
           ELSE /\ sender_socket' = IF sender_socket = "none" THEN "none" ELSE "closed"
                /\ UNCHANGED <<peer_ip, peer_port, senderVars>>
                /\ Called("save_settings", FALSE, 0, "raised", "none")
        /\ UNCHANGED <<strip_mute_states, bus_mute_states>>
        /\ PluginFrame

\* toggle_strip_mute(index)
ToggleStripMute(index, sendto_raises) ==
    LET new_state == ~strip_mute_states[index]
    IN  /\ strip_mute_states' = [strip_mute_states EXCEPT ![index] = new_state]
        /\ GetSenderAndSend("toggle_strip_mute", TRUE, index,
                            ToggleCommand(TRUE, index, new_state), sendto_raises, FALSE)
        /\ UNCHANGED <<settings, bus_mute_states>>
        /\ PluginFrame

\* toggle_bus_mute(index)
ToggleBusMute(index, sendto_raises) ==
    LET new_state == ~bus_mute_states[index]
    IN  /\ bus_mute_states' = [bus_mute_states EXCEPT ![index] = new_state]
        /\ GetSenderAndSend("toggle_bus_mute", FALSE, index,
                            ToggleCommand(FALSE, index, new_state), sendto_raises, FALSE)
        /\ UNCHANGED <<settings, strip_mute_states>>
        /\ PluginFrame

\* set_strip_param(0, "Gain", -6.0)
SetStripParam(sendto_raises) ==
    /\ GetSenderAndSend("set_strip_param", TRUE, 0, ParamCommand, sendto_raises, FALSE)
    /\ UNCHANGED <<settings, strip_mute_states, bus_mute_states>>
    /\ PluginFrame

\* test_connection: an exception of _get_vban_sender is caught
TestConnection(sendto_raises) ==
    /\ GetSenderAndSend("test_connection", FALSE, 0, RestartCommand, sendto_raises, TRUE)
    /\ UNCHANGED <<settings, strip_mute_states, bus_mute_states>>
    /\ PluginFrame

\* _unload: the sender is closed and forgotten
Unload ==
    /\ sender_socket' = "none"
    /\ Called("_unload", FALSE, 0, "None", "none")
    /\ UNCHANGED <<peer_ip, peer_port, senderVars>>
    /\ UNCHANGED <<settings, strip_mute_states, bus_mute_states>>
    /\ PluginFrame

\* no accessor called
NotCalled ==
    [called |-> FALSE, strip_range |-> <<>>, other_range |-> <<>>, bus_range |-> <<>>,
     input_level |-> Floor, output_level |-> Floor, strip_state |-> None,
     bus_state |-> None]

InitAccessors ==
    /\ acc_in = [index |-> 0, other |-> 0]
    /\ acc_out = NotCalled

\* nothing scheduled, nothing registered
InitTime ==
    /\ clock = 0
    /\ last_tick_at = 0
    /\ ka_due = 0
    /\ reg_expires = None

InitExt == InitWidgets /\ InitPlugin /\ InitAccessors /\ InitTime

InitAux == InitMeter /\ InitLife /\ InitLock /\ InitKeepAlive /\ InitPeer /\ InitExt

Init == InitListener /\ InitSender /\ InitApp /\ InitResolve /\ InitAux

Next ==
    \/ Start
    \/ StopBegin
    \/ StopFinish
    \/ \E t \in Threads : LoopCheck(t)
    \/ \E t \in Threads, data \in Datagrams : LoopRecv(t, data)
    \/ \E t \in Threads : LoopTimeout(t)
    \/ \E t \in Threads : LoopError(t)

Spec == Init /\ [][Next]_vars

\* one sender, of either implementation, under any sequence of calls
SenderInit == InitListener /\ InitAnySender /\ InitApp /\ InitResolve /\ InitAux

SenderNext ==
    \/ \E command \in Commands, sendto_raises \in BOOLEAN :
            SendCommand(command, sendto_raises)
    \/ \E command \in Commands, sendto_raises \in BOOLEAN :
            BackendSendCommand(command, sendto_raises)
    \/ \E timeout \in Timeouts, sendto_raises \in BOOLEAN :
            RegisterRTPacket(timeout, sendto_raises)

SenderSpec == SenderInit /\ [][SenderNext]_vars

\* the application from construction to close, with telemetry arriving
AppInit == InitListener /\ InitSender /\ InitAnyApp /\ InitResolve /\ InitAux

AppNext ==
    \/ AppStartListener
    \/ AppInitDetect
    \/ PollFires
    \/ \E mixer \in DialogMixerTypes : SaveConfig(mixer, Command1)
    \/ SaveConfigFails
    \/ OnClose
    \/ CloseFinish
    \/ \E t \in Threads : LoopCheck(t)
    \/ \E t \in Threads, data \in AppDatagrams : LoopRecv(t, data)
    \/ \E t \in Threads : LoopTimeout(t)
    \/ \E t \in Threads : LoopError(t)

AppSpec == AppInit /\ [][AppNext]_vars

\* the main loop runs every scheduled callback while the application runs
FairAppSpec == AppSpec /\ WF_vars(PollFires)

\* _resolve_mixer_type applied to any arguments
ResolveInit == InitListener /\ InitSender /\ InitApp /\ InitAnyResolve /\ InitAux

ResolveNext == Resolve

ResolveSpec == ResolveInit /\ [][ResolveNext]_vars


\* the meters of the application reading a listener that receives telemetry
MeterTypes == {2, 6, 99}

\* a frame of a Potato whose strip 0 has the mask 0x00001001 and whose
\* bus 0 has the mask 0x00000001, with the input levels 0 and 1 at 100
\* (0x0064) and the output levels 0..7 at -500 (0xFE0C)
KnownMaskFrame ==
    LET f == Frame(VBAN_PROTOCOL_SERVICE, VBAN_SERVICE_RTPACKET, 6, 280, 1)
        in0 == 28 + 16
        out0 == 28 + 84
        strip0 == 28 + 216
        bus0 == 28 + 248
    IN  [k \in 1..Len(f) |->
            IF k - 1 \in in0..(in0 + 3) THEN <<100, 0, 100, 0>>[k - in0]
            ELSE IF k - 1 \in out0..(out0 + 15) THEN <<12, 254>>[1 + ((k - 1 - out0) % 2)]
            ELSE IF k - 1 \in strip0..(strip0 + 3) THEN <<1, 16, 0, 0>>[k - strip0]
            ELSE IF k - 1 \in bus0..(bus0 + 3) THEN <<1, 0, 0, 0>>[k - bus0]
            ELSE f[k]]

MeterDatagrams ==
    {Frame(VBAN_PROTOCOL_SERVICE, VBAN_SERVICE_RTPACKET, t, 280, 2) : t \in MeterTypes}
        \cup {KnownMaskFrame}

MeterNext ==
    \/ AppStartListener
    \/ AppInitDetect
    \/ PollFires
    \/ \E t \in Threads : LoopCheck(t)
    \/ \E t \in Threads, data \in MeterDatagrams : LoopRecv(t, data)
    \/ \E w \in Widgets : UpdateMeterSync(w)
    \/ UpdateMeterLevel

MeterSpec == AppInit /\ [][MeterNext]_vars


\* a listener started and stopped at will, with telemetry arriving
LifecycleDatagrams ==
    { Frame(VBAN_PROTOCOL_SERVICE, VBAN_SERVICE_RTPACKET, 6, 280, 1),
      Frame(VBAN_PROTOCOL_SERVICE, VBAN_SERVICE_RTPACKET, 2, 212, 2) }

LifecycleNext ==
    \/ \E os \in OsOutcomes : StartCall(os)
    \/ StopBegin
    \/ StopFinish
    \/ \E t \in Threads : LoopCheck(t)
    \/ \E t \in Threads, data \in LifecycleDatagrams : LoopRecv(t, data)
    \/ \E t \in Threads : LoopTimeout(t)
    \/ \E t \in Threads : LoopError(t)

LifecycleSpec == Init /\ [][LifecycleNext]_vars

\* what a receive loop does next inside recvfrom
LoopReceives(t) ==
    \/ LoopTimeout(t)
    \/ LoopError(t)
    \/ \E data \in LifecycleDatagrams : LoopRecv(t, data)

\* threads are scheduled, recvfrom returns within its timeout, and the join
\* of stop() returns within its timeout
FairLifecycleSpec ==
    /\ LifecycleSpec
    /\ WF_vars(StopFinish)
    /\ \A t \in Threads : WF_vars(LoopCheck(t)) /\ WF_vars(LoopReceives(t))


\* the application from construction to close with its keep-alive schedule;
\* the settings dialog is saved with the mixer type left as it is
KeepAliveNext ==
    \/ AppStartListener
    \/ AppInitDetect
    \/ \E sendto_raises \in BOOLEAN : Run(sendto_raises)
    \/ \E sendto_raises \in BOOLEAN : KeepAliveFires(sendto_raises)
    \/ InMainLoop /\ SaveConfig(mixer_type_setting, Command1)
    \/ InMainLoop /\ OnClose
    \/ CloseFinish
    \/ \E t \in Threads : LoopCheck(t)
    \/ \E t \in Threads : LoopTimeout(t)

KeepAliveSpec == Init /\ [][KeepAliveNext]_vars

\* run() follows the constructor, and the main loop runs every scheduled
\* callback while the application runs
FairKeepAliveSpec ==
    /\ KeepAliveSpec
    /\ WF_vars(\E sendto_raises \in BOOLEAN : Run(sendto_raises))
    /\ WF_vars(\E sendto_raises \in BOOLEAN : KeepAliveFires(sendto_raises))


\* senders constructed from any configuration, and used
ConfigIPs == {"192.168.1.212", "", "not an address", "300.1.1.1"}

ConfigPorts == {6980, 0, -1, 65536}

ConstructInit ==
    /\ InitListener /\ InitSender /\ InitApp /\ InitResolve
    /\ InitMeter /\ InitLife /\ InitLock /\ InitKeepAlive
    /\ NoSenderYet
    /\ InitExt

ConstructNext ==
    \/ \E impl \in {"linux-app", "backend"}, ip \in ConfigIPs, port \in ConfigPorts :
            VBANSenderInit(impl, ip, port, Command1)
    \/ \E command \in Commands, sendto_raises \in BOOLEAN :
            ConfiguredSendCommand(command, sendto_raises)

ConstructSpec == ConstructInit /\ [][ConstructNext]_vars


\* the application with its settings dialog, its controls and its keep-alive
\* the configurations the dialog is saved with: another address, another
\* port with another mixer type, another stream name
SavedConfigs ==
    { [pc_ip |-> "192.168.1.100", port |-> 6980, mixer_type |-> "auto",
       stream_name |-> Command1],
      [pc_ip |-> "192.168.1.212", port |-> 6981, mixer_type |-> "potato",
       stream_name |-> Command1],
      [pc_ip |-> "192.168.1.212", port |-> 6980, mixer_type |-> "auto",
       stream_name |-> VMDeckLinux] }

SettingsNext ==
    \/ AppStartListener
    \/ AppInitDetect
    \/ \E sendto_raises \in BOOLEAN : Run(sendto_raises)
    \/ \E sendto_raises \in BOOLEAN : KeepAliveFires(sendto_raises)
    \/ \E config \in SavedConfigs :
            InMainLoop /\ SaveConfigTo(config.pc_ip, config.port, config.mixer_type,
                                       config.stream_name)
    \/ \E sendto_raises \in BOOLEAN : InMainLoop /\ MuteClick(sendto_raises)
    \/ \E sendto_raises \in BOOLEAN : InMainLoop /\ RecorderClick(sendto_raises)
    \/ InMainLoop /\ OnClose
    \/ CloseFinish

SettingsSpec == Init /\ [][SettingsNext]_vars

\* the meters' sync with the user at the mute button, with telemetry with
\* and without the bitmask tail arriving
SyncDatagrams ==
    { Frame(VBAN_PROTOCOL_SERVICE, VBAN_SERVICE_RTPACKET, 2, 212, 1), KnownMaskFrame }

SyncNext ==
    \/ AppStartListener
    \/ AppInitDetect
    \/ \E t \in Threads : LoopCheck(t)
    \/ \E t \in Threads, data \in SyncDatagrams : LoopRecv(t, data)
    \/ \E sendto_raises \in BOOLEAN : MuteClick(sendto_raises)
    \/ \E w \in Widgets : UpdateMeterSync(w)
    \/ UpdateMeterLevel

SyncSpec == Init /\ [][SyncNext]_vars

\* the accessors of a running listener called with any index, before any
\* telemetry and after a frame of each device type
AccessorTypes == {1, 2, 3, 6, 99}

AccessorIndices == {-9, -1} \cup 0..8 \cup {17, 40}

AccessorInit ==
    /\ InitSender /\ InitApp /\ InitResolve
    /\ InitMeter /\ InitLife /\ InitLock /\ InitKeepAlive /\ InitPeer
    /\ InitWidgets /\ InitPlugin /\ InitTime
    /\ running = TRUE
    /\ socket = "open"
    /\ thread = 1
    /\ pc = [t \in Threads |-> IF t = 1 THEN "head" ELSE "none"]
    /\ stop_pc = "idle"
    /\ last_recv = NoRecv
    /\ \/ /\ voicemeeter_type = None
          /\ input_levels = ZeroLevels(34)
          /\ output_levels = ZeroLevels(64)
          /\ strip_states = Zeros(8)
          /\ bus_states = Zeros(8)
          /\ last_tail = <<>>
       \/ \E vm_type \in AccessorTypes :
            LET payload == Payload(vm_type, 280, 1)
            IN  /\ voicemeeter_type = payload[1]
                /\ input_levels = ParsedInputLevels(payload)
                /\ output_levels = ParsedOutputLevels(payload)
                /\ strip_states = ParsedStripStates(payload)
                /\ bus_states = ParsedBusStates(payload)
                /\ last_tail = SubSeq(payload, 213, 280)
    /\ acc_in \in [index : AccessorIndices, other : AccessorIndices]
    /\ acc_out = NotCalled

\* _strip_channel_range, _bus_channel_range and the four accessors called
\* with acc_in
CallAccessors ==
    /\ ~acc_out.called
    /\ acc_out' =
          [called |-> TRUE,
           strip_range |-> StripChannelRange(voicemeeter_type, acc_in.index),
           other_range |-> StripChannelRange(voicemeeter_type, acc_in.other),
           bus_range |-> BusChannelRange(acc_in.index),
           input_level |-> GetInputLevel(acc_in.index),
           output_level |-> GetOutputLevel(acc_in.index),
           strip_state |-> GetStripState(acc_in.index),
           bus_state |-> GetBusState(acc_in.index)]
    /\ UNCHANGED acc_in
    /\ UNCHANGED <<listenerCtl, snapshot, rxVars, senderVars, appVars, resVars, auxVars>>
    /\ UNCHANGED <<widgetVars, pluginVars, timeVars>>

AccessorNext == CallAccessors

AccessorSpec == AccessorInit /\ [][AccessorNext]_vars

\* the keep-alive schedule in time: the application from construction to
\* close, its ticks run when they are due
TimedKeepAliveNext ==
    \/ AppStartListener
    \/ AppInitDetect
    \/ \E sendto_raises \in BOOLEAN : Run(sendto_raises)
    \/ \E sendto_raises \in BOOLEAN : KeepAliveDue(sendto_raises)
    \/ TimePasses
    \/ InMainLoop /\ OnClose
    \/ CloseFinish

TimedKeepAliveSpec == Init /\ [][TimedKeepAliveNext]_vars

\* the Plugin of the backend under any sequence of calls of its methods
PluginInit ==
    /\ InitListener /\ InitApp /\ InitResolve
    /\ InitMeter /\ InitLife /\ InitLock /\ InitKeepAlive
    /\ sender_impl = "backend"
    /\ stream_name = Command1
    /\ frame_counter = Zero32
    /\ sent = <<>>
    /\ last_send = NoSend
    /\ n_calls = 0
    /\ NoSenderYet
    /\ InitExt

PluginNext ==
    \/ \E new_settings \in SettingsFiles, write_fails \in BOOLEAN :
            SaveSettings(new_settings, write_fails)
    \/ \E index \in PluginIndices, sendto_raises \in BOOLEAN :
            ToggleStripMute(index, sendto_raises)
    \/ \E index \in PluginIndices, sendto_raises \in BOOLEAN :
            ToggleBusMute(index, sendto_raises)
    \/ \E sendto_raises \in BOOLEAN : SetStripParam(sendto_raises)
    \/ \E sendto_raises \in BOOLEAN : TestConnection(sendto_raises)
    \/ Unload

PluginSpec == PluginInit /\ [][PluginNext]_vars

\* the header code applied to any header
CodecInit == InitListener /\ InitSender /\ InitApp /\ InitAnyCodec /\ InitAux

CodecNext == Encode \/ Decode

CodecSpec == CodecInit /\ [][CodecNext]_vars


\* the frame a long-running listener decoded last
WarmPayload ==
    Slice(Frame(VBAN_PROTOCOL_SERVICE, VBAN_SERVICE_RTPACKET, 6, 280, 1), 28, 308)

\* a listener that has been running for 48 frames
WarmListener ==
    /\ running = TRUE
    /\ socket = "open"
    /\ thread = 1
    /\ pc = [t \in Threads |-> IF t = 1 THEN "head" ELSE "none"]
    /\ stop_pc = "idle"
    /\ voicemeeter_type = WarmPayload[1]
    /\ input_levels = ParsedInputLevels(WarmPayload)
    /\ output_levels = ParsedOutputLevels(WarmPayload)
    /\ strip_states = ParsedStripStates(WarmPayload)
    /\ bus_states = ParsedBusStates(WarmPayload)
    /\ last_recv = NoRecv
    /\ last_tail = SubSeq(WarmPayload, 213, 280)
    /\ InitMeter
    /\ InitLife
    /\ InitKeepAlive
    /\ InitPeer
    /\ InitExt
    /\ lock = None
    /\ pending = [t \in Threads |-> <<>>]
    /\ debug_counter = 48
    /\ n_frames = 0
    /\ ui_pc = "idle"
    /\ ui_op = NoOp
    /\ last_access = NoAccess

\* the receive loop and the UI thread around self.lock, from a new listener
\* or from one that has been running
LockInit ==
    /\ InitSender /\ InitApp /\ InitResolve
    /\ (InitListener /\ InitAux) \/ WarmListener

LockNext ==
    \/ Start
    \/ \E t \in Threads : LoopCheck(t)
    \/ \E t \in Threads : LoopTimeout(t)
    \/ \E t \in Threads, data \in LockDatagrams : RecvFrame(t, data)
    \/ \E t \in Threads : ParseAcquire(t)
    \/ \E t \in Threads : ParseWrite(t)
    \/ \E t \in Threads : ParseRelease(t)
    \/ \E t \in Threads : ParseDebug(t)
    \/ \E op \in AccessorOps : AccessorEnter(op)
    \/ AccessorReturn
    \/ DetectRead
    \/ UiSendBegin
    \/ \E sendto_raises \in BOOLEAN : UiSendEnd(sendto_raises)

LockSpec == LockInit /\ [][LockNext]_vars


\* ------------------------------------------------------------------------
\* Properties of the receive loop and the decoder
\* ------------------------------------------------------------------------

\* the conditions under which a datagram is a telemetry frame: at least 28
\* bytes, signature VBAN, protocol class service, service subtype telemetry
WellFormedTelemetry(d) ==
    /\ Len(d) >= 28
    /\ <<d[1], d[2], d[3], d[4]>> = <<86, 66, 65, 78>>
    /\ d[5] \div 32 = 3
    /\ d[7] = 33

\* the signed 16-bit value carried at 0-based offset off of payload p
WireLevel(p, off) ==
    LET u == p[off + 1] + 256 * p[off + 2]
    IN  IF u < 32768 THEN u ELSE u - 65536

\* the unsigned 32-bit value carried at 1-based position k of byte string b
WireMask(b, k) == b[k] + 256 * b[k + 1] + 65536 * b[k + 2] + 16777216 * b[k + 3]

\* C1: the receive loop hands a datagram's payload (the bytes after the
\* 28-byte header) to the decoder only if the datagram is at least 28 bytes,
\* starts with VBAN, has protocol class service and subtype telemetry; every
\* other datagram is discarded and leaves the whole snapshot unchanged.
C1_OnlyTelemetryReachesDecoder ==
    [][ last_recv'.got =>
          IF WellFormedTelemetry(last_recv'.data)
          THEN last_recv'.parsed =>
                  last_recv'.payload
                      = SubSeq(last_recv'.data, 29, Len(last_recv'.data))
          ELSE ~last_recv'.parsed /\ UNCHANGED snapshot ]_vars

\* a foreign datagram of full length was received after telemetry had been
\* decoded
C1_Witness ==
    /\ last_recv.got
    /\ Len(last_recv.data) >= 28 + 280
    /\ ~WellFormedTelemetry(last_recv.data)
    /\ voicemeeter_type # None

\* C2: decoding a payload shorter than 212 bytes leaves every snapshot field
\* as it was.
C2_ShortPayloadRejected ==
    [][ (last_recv'.parsed /\ Len(last_recv'.payload) < 212)
            => UNCHANGED snapshot ]_vars

\* a 211-byte payload reached the decoder after telemetry had been decoded
C2_Witness ==
    /\ last_recv.parsed
    /\ Len(last_recv.payload) = 211
    /\ voicemeeter_type # None
    /\ voicemeeter_type # last_recv.payload[1]

\* C3: a decoded payload without the tail (212 <= length < 280) updates the
\* device type and the levels and leaves both bitmask arrays as they were;
\* the bitmasks are always those of the most recent decoded frame that
\* carried the tail, or the initial zeros.
C3_TailLessKeepsMasks ==
    /\ [][ (/\ last_recv'.parsed
            /\ Len(last_recv'.payload) >= 212
            /\ Len(last_recv'.payload) < 280)
           => /\ voicemeeter_type' = last_recv'.payload[1]
              /\ \A i \in 1..34 :
                    input_levels'[i].num * 100
                        = WireLevel(last_recv'.payload, 16 + 2 * (i - 1)) * input_levels'[i].den
              /\ \A j \in 1..64 :
                    output_levels'[j].num * 100
                        = WireLevel(last_recv'.payload, 84 + 2 * (j - 1)) * output_levels'[j].den
              /\ strip_states' = strip_states
              /\ bus_states' = bus_states ]_vars
    /\ [](IF last_tail = <<>>
          THEN strip_states = [i \in 1..8 |-> 0] /\ bus_states = [i \in 1..8 |-> 0]
          ELSE /\ strip_states = [i \in 1..8 |-> WireMask(last_tail, 5 + 4 * (i - 1))]
               /\ bus_states = [i \in 1..8 |-> WireMask(last_tail, 37 + 4 * (i - 1))])

\* a frame without the tail was decoded after a frame with the tail had set
\* non-zero bitmasks
C3_Witness ==
    /\ last_recv.parsed
    /\ Len(last_recv.payload) = 279
    /\ last_tail # <<>>
    /\ strip_states[1] # 0
    /\ bus_states[8] # 0
    /\ voicemeeter_type = last_recv.payload[1]

\* C4: in every reachable state the snapshot arrays are fully sized:
\* 34 input levels, 64 output levels, 8 strip masks, 8 bus masks.
C4_ArraysFullySized ==
    /\ DOMAIN input_levels = 1..34
    /\ DOMAIN output_levels = 1..64
    /\ DOMAIN strip_states = 1..8
    /\ DOMAIN bus_states = 1..8

\* the listener was stopped and its socket closed after frames with and
\* without the tail had been decoded
C4_Witness ==
    /\ ~running
    /\ socket = "closed"
    /\ stop_pc = "idle"
    /\ voicemeeter_type # None
    /\ last_tail # <<>>

\* ------------------------------------------------------------------------
\* Properties of the frame counter
\* ------------------------------------------------------------------------

\* the frame counter carried in bytes 24..27 of a datagram, as halves
CounterOf(packet) ==
    [hi |-> packet[27] + 256 * packet[28], lo |-> packet[25] + 256 * packet[26]]

\* c + 1 modulo 2^32
Succ32(c) ==
    IF c.lo < 65535 THEN [hi |-> c.hi, lo |-> c.lo + 1]
    ELSE IF c.hi < 65535 THEN [hi |-> c.hi + 1, lo |-> 0]
    ELSE [hi |-> 0, lo |-> 0]

\* C5: commands and registrations of one sender draw from one counter; each
\* transmitted datagram carries exactly one more (modulo 2^32) than the
\* datagram transmitted before it, and a call that transmits no datagram
\* does not advance the counter.
C5_OneStepPerTransmittedPacket ==
    [][ last_send'.got =>
          IF last_send'.ok
          THEN /\ sent' = last_send'.packet
               /\ sent # <<>> => CounterOf(sent') = Succ32(CounterOf(sent))
          ELSE frame_counter' = frame_counter ]_vars

\* C6: the frame counter increments by exactly 1 per encoded packet and
\* wraps from 0xFFFFFFFF to 0: every value 0..0xFFFFFFFF is emitted in turn.
C6_CounterWrapsAfterMax ==
    [][ frame_counter' # frame_counter
            => frame_counter' = Succ32(frame_counter) ]_vars

\* ------------------------------------------------------------------------
\* Properties of mixer-type resolution and detection
\* ------------------------------------------------------------------------

\* the profile a manual setting names: itself, or banana when unknown
ManualProfile(setting) ==
    IF setting \in {"standard", "banana", "potato"} THEN setting ELSE "banana"

\* the profile the lookup table gives a device type ("None" if unrecognized)
MappedProfile(vm_type) ==
    IF vm_type = 1 THEN "standard"
    ELSE IF vm_type = 2 THEN "banana"
    ELSE IF vm_type = 3 \/ vm_type = 6 THEN "potato"
    ELSE "None"

\* C7: whenever the configured mixer type is an explicit profile name, the
\* active profile equals that profile (banana if the name is unknown),
\* whatever telemetry arrives and whatever poll was scheduled earlier.
C7_ManualOverrideAuthoritative ==
    mixer_type_setting # "auto"
        => active_mixer_type = ManualProfile(mixer_type_setting)

\* C8: in automatic mode a poll stays scheduled while no recognized type has
\* been seen; once a poll has detected, no further run of
\* _auto_detect_mixer_type is scheduled until automatic mode is re-selected.
C8_DetectsOnceThenStops ==
    /\ (app_pc = "running" /\ mixer_type_setting = "auto" /\ ~detected)
            => pending_polls >= 1
    /\ (mixer_type_setting = "auto" /\ detected) => pending_polls = 0

\* C9: in automatic mode, whenever the snapshot's device type is a
\* recognized value mapping to another profile than the active one, the
\* active profile eventually becomes the profile mapped from the device type
\* (unless automatic mode is left, the device type stops being a recognized
\* value, or the application is closed).
C9_ProfileFollowsDeviceType ==
    (/\ app_pc = "running"
     /\ mixer_type_setting = "auto"
     /\ MappedProfile(voicemeeter_type) # "None"
     /\ MappedProfile(voicemeeter_type) # active_mixer_type)
    ~> (\/ active_mixer_type = MappedProfile(voicemeeter_type)
        \/ MappedProfile(voicemeeter_type) = "None"
        \/ mixer_type_setting # "auto"
        \/ app_pc # "running")

\* C9, amended: the same holds only while a run of _auto_detect_mixer_type
\* is still scheduled; once detection has succeeded and no run is scheduled,
\* a later change of the device type is not followed.
C9_PendingPollAppliesDeviceType ==
    (/\ app_pc = "running"
     /\ mixer_type_setting = "auto"
     /\ pending_polls > 0
     /\ MappedProfile(voicemeeter_type) # "None"
     /\ MappedProfile(voicemeeter_type) # active_mixer_type)
    ~> (\/ active_mixer_type = MappedProfile(voicemeeter_type)
        \/ MappedProfile(voicemeeter_type) = "None"
        \/ mixer_type_setting # "auto"
        \/ app_pc # "running")

\* in automatic mode a run of _auto_detect_mixer_type found a potato device
\* and replaced the active profile by potato
C9_Witness ==
    /\ app_pc = "running"
    /\ mixer_type_setting = "auto"
    /\ last_poll = "detected"
    /\ detected
    /\ voicemeeter_type = 6
    /\ active_mixer_type = "potato"

\* C10: resolve maps device type 1 to standard (2 hardware, 1 virtual strip,
\* 2 buses), 2 to banana (3, 2, 5), 3 and 6 to potato (5, 3, 8); every other
\* or absent device type and an unknown manual name resolve to banana.
C10_ResolveTable ==
    res_out.called =>
        LET vm_type == IF res_in.has_listener THEN res_in.vm_type ELSE -1
            expected ==
                IF res_in.mixer_type = "auto"
                THEN IF MappedProfile(vm_type) = "None" THEN "banana"
                     ELSE MappedProfile(vm_type)
                ELSE ManualProfile(res_in.mixer_type)
            hardware == res_out.profile.hardware_strips
            virtual == Len(res_out.profile.strip_labels) - hardware
            buses == Len(res_out.profile.bus_labels)
        IN  /\ res_out.name = expected
            /\ res_out.name = "standard" => <<hardware, virtual, buses>> = <<2, 1, 2>>
            /\ res_out.name = "banana" => <<hardware, virtual, buses>> = <<3, 2, 5>>
            /\ res_out.name = "potato" => <<hardware, virtual, buses>> = <<5, 3, 8>>

\* device type 3 was resolved in automatic mode
C10_Witness ==
    /\ res_out.called
    /\ res_in.mixer_type = "auto"
    /\ res_in.has_listener
    /\ res_in.vm_type = 3
    /\ res_out.name = "potato"

\* ------------------------------------------------------------------------
\* Properties of the level accessors
\* ------------------------------------------------------------------------

\* the channel range the layout of a profile gives strip i
ProfileRange(profile, i) ==
    LET hw == MIXER_PROFILES[profile].hardware_strips
    IN  IF i < hw THEN <<2 * i, 2>> ELSE <<2 * hw + 8 * (i - hw), 8>>

\* C11: for every strip index i of the active profile, the channel range used
\* to read the strip's input level is (2*i, 2) for i below the profile's
\* hardware strip count hw, and (2*hw + 8*(i - hw), 8) otherwise.
C11_StripRangeOfActiveProfile ==
    [][ (last_read' # last_read /\ last_read'.is_strip /\ last_read'.range # <<>>)
            => last_read'.range = ProfileRange(active_mixer_type, last_read'.index) ]_vars

\* C12: the channel range of bus b is (8*b, 8) and the level reported for it
\* is the maximum of outputLevels[8*b .. 8*b+7]; the level reported for a
\* strip is the maximum over the levels of the strip's channel range (the
\* part of the range that lies in the list), never another element.
C12_LevelIsMaximumOfRange ==
    [][ (last_read' # last_read /\ last_read'.range # <<>>) =>
          LET r == last_read'
              levels == IF r.is_strip THEN input_levels ELSE output_levels
              window == ((r.range[1] + 1)..(r.range[1] + r.range[2])) \cap DOMAIN levels
          IN  /\ ~r.is_strip => /\ r.range = <<8 * r.index, 8>>
                                /\ window = (8 * r.index + 1)..(8 * r.index + 8)
              /\ window # {} =>
                    /\ \E k \in window : levels[k] = r.level
                    /\ \A k \in window : ~LevelLess(r.level, levels[k]) ]_vars

\* the meter of bus 4 showed a level that is not the first of its range
C12_Witness ==
    /\ last_read.got
    /\ ~last_read.is_strip
    /\ last_read.index = 4
    /\ last_read.range = <<32, 8>>
    /\ voicemeeter_type = 6
    /\ last_read.level # output_levels[33]
    /\ \A k \in 33..40 : ~LevelLess(last_read.level, output_levels[k])

\* ------------------------------------------------------------------------
\* Properties of start() and stop()
\* ------------------------------------------------------------------------

\* C13: across any sequence of start() and stop() calls at most one receive
\* loop is executing (no two threads are inside recvfrom at once), and one
\* is executing while the listener is running after a successful start().
C13_AtMostOneLoop ==
    /\ Cardinality({t \in Threads : pc[t] = "recv"}) <= 1
    /\ running => Loops # {}

\* C14: stop() clears the running flag first, joins, then closes the socket,
\* and always returns; if no start() follows, every receive loop eventually
\* exits.
C14_StopReturnsAndLoopExits ==
    /\ [][ (stop_pc = "idle" /\ stop_pc' = "join")
                => (~running' /\ socket' = socket) ]_vars
    /\ [][ (stop_pc = "join" /\ stop_pc' = "idle")
                => (~running' /\ socket' \in {"none", "closed"}) ]_vars
    /\ (stop_pc = "join") ~> (stop_pc = "idle")
    /\ \A s \in {0, 1} :
          (stop_pc = "join" /\ last_start.seq = s)
              ~> (Loops = {} \/ last_start.seq # s)

\* stop() has returned, and the loop that was receiving at the time has exited
C14_Witness ==
    /\ CleanStopped
    /\ thread # None
    /\ last_recv = NoRecv
    /\ voicemeeter_type = 6

\* C15: a start() after a clean stop() succeeds (the operating system
\* granting the socket and the port): it returns True, the listener is
\* running, exactly one loop runs on a newly bound socket, and well-formed
\* telemetry frames arriving afterwards update the snapshot.
C15_RestartAfterCleanStop ==
    /\ [][ (last_start'.seq # last_start.seq /\ CleanStopped /\ last_start'.os = "ok")
              => /\ last_start'.ret = "True"
                 /\ running'
                 /\ socket' = "open"
                 /\ Loops' = {thread'}
                 /\ pc'[thread'] = "head" ]_vars
    /\ [][ (/\ last_start.clean /\ last_start.ret = "True"
            /\ last_recv'.got
            /\ WellFormedTelemetry(last_recv'.data)
            /\ Len(last_recv'.data) >= 28 + 212)
              => /\ voicemeeter_type' = last_recv'.data[29]
                 /\ \A i \in 1..34 :
                        input_levels'[i].num * 100 =
                            WireLevel(last_recv'.payload, 16 + 2 * (i - 1)) * input_levels'[i].den
                 /\ \A j \in 1..64 :
                        output_levels'[j].num * 100 =
                            WireLevel(last_recv'.payload, 84 + 2 * (j - 1)) * output_levels'[j].den ]_vars

\* the listener was restarted after a clean stop and then decoded a frame
C15_Witness ==
    /\ last_start.clean
    /\ last_start.ret = "True"
    /\ running
    /\ last_recv.parsed
    /\ voicemeeter_type = 2

\* ------------------------------------------------------------------------
\* Properties of the snapshot lock
\* ------------------------------------------------------------------------

\* C16: every access to a snapshot field, by the receive loop, by the
\* accessors and by the mixer-type detection, happens while the accessing
\* thread holds the lock, and no reader sees a device type, levels or masks
\* that belong to different frames.
C16_EveryAccessUnderLock ==
    last_access.got => (last_access.locked /\ last_access.consistent)

\* C17: no thread holds the lock while it is inside a network call: not a
\* loop thread inside recvfrom, not the UI thread inside sendto; the lock is
\* held only inside the with-blocks of the update and of the accessors.
C17_LockNotHeldAcrossNetworkCall ==
    /\ \A t \in Threads : pc[t] = "recv" => lock # t
    /\ ui_pc = "sendto" => lock # UI
    /\ \A t \in Threads : lock = t => pc[t] \in SnapshotFields \cup {"release"}
    /\ lock = UI => ui_pc = "locked"

\* the UI thread is inside sendto while the loop holds the lock in the middle
\* of an update
C17_Witness ==
    /\ ui_pc = "sendto"
    /\ lock = 1
    /\ pc[1] = "output_levels"


\* ------------------------------------------------------------------------
\* Properties of the keep-alive schedule
\* ------------------------------------------------------------------------

\* C18: every _periodic_rt_registration call, whether its registration was
\* sent or failed, leaves exactly one further call scheduled; and once the
\* application runs, registration attempts keep being made (as many as the
\* application is followed for) unless the application is closed
C18_KeepAliveRepeats ==
    /\ [][ticks' # ticks => ka_pending' = 1]_vars
    /\ (app_pc = "running") ~> (ticks = MaxTicks \/ app_pc # "running")

\* the application is running, a tick that followed an earlier tick has just
\* failed to send its registration, and the next tick is scheduled
C18_Witness ==
    /\ app_pc = "running"
    /\ ticks >= 2
    /\ last_send.got /\ last_send.kind = "register" /\ ~last_send.ok
    /\ ka_pending = 1

\* C19: a registration datagram sent by a keep-alive tick leaves through the
\* socket the listener is bound to: never through the sender's own socket,
\* never through a socket that is not bound to the listening port
C19_KeepAliveOverListenerSocket ==
    (ticks > 0 /\ last_send.got /\ last_send.kind = "register" /\ last_send.ok)
        => last_send.via = "open"


\* ------------------------------------------------------------------------
\* Properties of the senders' error handling
\* ------------------------------------------------------------------------

\* a datagram as the socket takes it: at least a header, every element a byte
IsDatagram(packet) ==
    /\ Len(packet) >= 28
    /\ \A i \in DOMAIN packet : packet[i] \in 0..255

\* C20: no call of send_command (either implementation) or of
\* register_rt_packet lets an exception out; a call that failed returns
\* False, and a call returns True only when it handed a well-formed datagram
\* to a socket, which is then the datagram last transmitted
C20_FailuresReportedNeverRaised ==
    last_send.got =>
        /\ ~last_send.raised
        /\ (~last_send.ok) => (last_send.packet = <<>> /\ last_send.via = "none")
        /\ last_send.ok =>
                /\ IsDatagram(last_send.packet)
                /\ last_send.via # "none"
                /\ sent = last_send.packet

\* a registration that failed in sendto after an earlier call: it returned
\* False
C20_Witness ==
    /\ n_calls >= 2
    /\ last_send.got /\ last_send.kind = "register"
    /\ ~last_send.ok /\ ~last_send.raised

\* ------------------------------------------------------------------------
\* Properties of the listener's start-up failures
\* ------------------------------------------------------------------------

\* C21: a start() whose bind failed is not passed over: the application does
\* not go on to run its main loop with a listener that holds the unbound
\* socket of the failed bind and never started a receive loop
C21_BindFailureSurfaced ==
    (socket = "unbound" /\ ~running) => app_pc # "running"

\* ------------------------------------------------------------------------
\* Properties of the construction of a sender
\* ------------------------------------------------------------------------

\* a peer address a datagram can be sent to: a dotted IPv4 address and a port
\* in 1..65535
ValidPeer(ip, port) == ip \in ResolvableHosts /\ port \in 1..65535

\* C22: a sender constructed with an invalid peer address or port has no
\* socket: the construction was rejected before the socket was created
C22_InvalidConfigurationHasNoSocket ==
    ~ValidPeer(peer_ip, peer_port) => sender_socket = "none"

\* ------------------------------------------------------------------------
\* Properties of the header code
\* ------------------------------------------------------------------------

\* the protocol byte and the subtype byte a packet kind is encoded with
KindProtocol(kind) == IF kind = "register" THEN 96 ELSE 64

KindSubtype(kind) == IF kind = "register" THEN 32 ELSE 0

\* the kinds whose header carries the sender's frame counter
CountingKinds == {"command", "backend_command", "register"}

\* C23: for a header encoded by a sender (command or registration) with a
\* stream name of at most 16 bytes and any frame counter, decoding the
\* datagram gives a valid header with the same signature, protocol byte,
\* subtype byte, stream name and frame counter
C23_HeaderRoundTrip ==
    (/\ codec_out.decoded
     /\ codec_in.kind \in CountingKinds
     /\ Len(Utf8(codec_in.name)) <= 16)
        => /\ codec_out.header.valid
           /\ codec_out.header.signature = <<86, 66, 65, 78>>
           /\ codec_out.header.protocol = KindProtocol(codec_in.kind)
           /\ codec_out.header.subtype = KindSubtype(codec_in.kind)
           /\ Utf8Decode(codec_out.header.name_bytes) = codec_in.name
           /\ codec_out.header.counter = codec_in.counter

\* a registration header with a 16-byte name and the largest counter was
\* encoded and decoded
C23_Witness ==
    /\ codec_out.decoded
    /\ codec_in.kind = "register"
    /\ Len(Utf8(codec_in.name)) = 16
    /\ codec_in.counter = [hi |-> 65535, lo |-> 65535]
    /\ codec_out.header.valid

\* the little-endian bytes of a 32-bit value given as two 16-bit halves
LittleEndian(c) == <<c.lo % 256, c.lo \div 256, c.hi % 256, c.hi \div 256>>

\* C24: a command datagram is 28 header bytes followed by the command text:
\* 'VBAN', 0x40, 0, 0, 0x10, the stream name cut at 16 bytes and padded with
\* zero bytes in bytes 8..23, and the little-endian frame counter (0 in
\* test_vban.py) in bytes 24..27, whatever the length of the name
C24_CommandDatagramLayout ==
    (codec_out.encoded /\ codec_in.kind # "register") =>
        LET data == codec_out.data
            name == Utf8(codec_in.name)
            text == Utf8(codec_in.command)
            counter == IF codec_in.kind = "test_command" THEN Zero32
                       ELSE codec_in.counter
        IN  /\ Len(data) = 28 + Len(text)
            /\ SubSeq(data, 1, 8) = <<86, 66, 65, 78, 64, 0, 0, 16>>
            /\ \A i \in 1..16 :
                    data[8 + i] = IF i <= Len(name) THEN name[i] ELSE 0
            /\ SubSeq(data, 25, 28) = LittleEndian(counter)
            /\ SubSeq(data, 29, Len(data)) = text

\* a command was encoded with a stream name longer than 16 bytes and a
\* counter whose four bytes are all non-zero
C24_Witness ==
    /\ codec_out.encoded
    /\ codec_in.kind = "command"
    /\ Len(Utf8(codec_in.name)) > 16
    /\ codec_in.counter = [hi |-> 4660, lo |-> 22136]

\* C25: a registration datagram is 28 bytes, byte 4 = 0x60, byte 5 = 0,
\* byte 6 = 32, and byte 7 is the requested timeout, for every requested
\* timeout
C25_RegistrationDatagram ==
    (codec_out.encoded /\ codec_in.kind = "register") =>
        /\ Len(codec_out.data) = 28
        /\ SubSeq(codec_out.data, 5, 7) = <<96, 0, 32>>
        /\ codec_out.data[8] = codec_in.timeout

\* C25 as amended: a registration datagram is 28 bytes, byte 4 = 0x60,
\* byte 5 = 0, byte 6 = 32, and byte 7 is the requested timeout modulo 256,
\* which is the requested timeout when that is in 0..255 (the application's
\* keep-alive requests 15)
C25_RegistrationDatagramMod256 ==
    /\ (codec_out.encoded /\ codec_in.kind = "register") =>
            /\ Len(codec_out.data) = 28
            /\ SubSeq(codec_out.data, 5, 7) = <<96, 0, 32>>
            /\ codec_out.data[8] = codec_in.timeout % 256
            /\ codec_in.timeout \in 0..255 => codec_out.data[8] = codec_in.timeout
    /\ KeepAliveTimeout = 15

\* a registration with timeout 15 was encoded: byte 7 is 15
C25_Witness ==
    /\ codec_out.encoded
    /\ codec_in.kind = "register"
    /\ codec_in.timeout = 15
    /\ codec_out.data[8] = 15

\* ------------------------------------------------------------------------
\* Properties of the state bitmasks
\* ------------------------------------------------------------------------

\* the bit position of each routing bus (mute is bit 0)
RoutingBit == [A1 |-> 12, A2 |-> 13, A3 |-> 14, A4 |-> 15, A5 |-> 19,
               B1 |-> 16, B2 |-> 17, B3 |-> 18]

RECURSIVE Pow2(_)
Pow2(n) == IF n = 0 THEN 1 ELSE 2 * Pow2(n - 1)

\* bit n of mask
BitSet(mask, n) == (mask \div Pow2(n)) % 2 = 1

\* C26: a widget that synced from a mask shows mute exactly when bit 0 of
\* the mask is set, and a strip shows each of its routing buttons X as on
\* exactly when X's bit is set, the same bit under every profile; the nine
\* masks of the code are the nine distinct bits; the mask 0x00001001 shows
\* as muted and routed to A1 only
C26_StateBitmaskDecoding ==
    /\ VMRTSTATE_MODE_MUTE = Pow2(0)
    /\ \A X \in DOMAIN RoutingBit : ROUTING_STATE_BITS[X] = Pow2(RoutingBit[X])
    /\ Cardinality({0} \cup {RoutingBit[X] : X \in DOMAIN RoutingBit}) = 9
    /\ (last_read.got /\ last_read.synced) =>
            /\ last_read.muted = BitSet(last_read.state, 0)
            /\ last_read.is_strip =>
                    /\ last_read.buttons # {}
                    /\ last_read.buttons \subseteq DOMAIN RoutingBit
                    /\ \A X \in last_read.buttons :
                          X \in last_read.routed <=> BitSet(last_read.state, RoutingBit[X])
                    /\ last_read.state = 4097 =>
                          last_read.muted /\ last_read.routed = {"A1"}
            /\ ~last_read.is_strip => last_read.routed = {}

\* strip 0 synced from the mask 0x00001001: muted, routed to A1 only
C26_Witness ==
    /\ last_read.got /\ last_read.synced
    /\ last_read.is_strip /\ last_read.index = 0
    /\ last_read.state = 4097
    /\ last_read.muted
    /\ last_read.routed = {"A1"}
    /\ Cardinality(last_read.buttons) > 1

\* ------------------------------------------------------------------------
\* Properties of the stored levels
\* ------------------------------------------------------------------------

\* a step of the receive loop that decoded a frame and stored its levels
StoresFrame == last_recv'.parsed /\ Len(last_recv'.payload) >= 212

\* a step in which _update_meter read a level through an accessor
ReadsLevel == last_read' # last_read /\ last_read'.range # <<>>

\* the part of the levels list the accessor of the step reads
ReadWindow ==
    LET r == last_read'
    IN  ((r.range[1] + 1)..(r.range[1] + r.range[2]))
            \cap DOMAIN (IF r.is_strip THEN input_levels ELSE output_levels)

MaxWire(p, base, window) ==
    CHOOSE m \in {WireLevel(p, base + 2 * (k - 1)) : k \in window} :
        \A k \in window : WireLevel(p, base + 2 * (k - 1)) <= m

\* C30: decoding a frame takes the device type from payload byte 0, input
\* level i from the signed little-endian 16-bit value at payload bytes
\* 16+2i and output level j from the one at 84+2j, each as that value
\* divided by 100; a level read through an accessor right after the frame
\* is the largest wire value of its channel range divided by 100
C30_DecodeOffsetsAndScale ==
    /\ [][ StoresFrame =>
             /\ voicemeeter_type' = last_recv'.payload[1]
             /\ \A i \in 0..33 :
                   input_levels'[i + 1].num * 100 =
                       WireLevel(last_recv'.payload, 16 + 2 * i) * input_levels'[i + 1].den
             /\ \A j \in 0..63 :
                   output_levels'[j + 1].num * 100 =
                       WireLevel(last_recv'.payload, 84 + 2 * j) * output_levels'[j + 1].den
         ]_vars
    /\ [][ (ReadsLevel /\ ReadWindow # {} /\ last_recv.parsed /\ Len(last_recv.payload) >= 212)
             => last_read'.level.num * 100 =
                    MaxWire(last_recv.payload,
                            IF last_read'.is_strip THEN 16 ELSE 84, ReadWindow)
                        * last_read'.level.den
         ]_vars

\* the frame that carries 100 at input levels 0 and 1 and -500 at output
\* levels 0..7 was decoded as a Potato's, and bus 0 reads -5.00 dB
C30_Witness ==
    /\ voicemeeter_type = 6
    /\ input_levels[1] = [num |-> 100, den |-> 100]
    /\ input_levels[2] = [num |-> 100, den |-> 100]
    /\ last_recv.parsed
    /\ last_read.got /\ ~last_read.is_strip /\ last_read.index = 0
    /\ last_read.range = <<0, 8>>
    /\ last_read.level.num = -5 * last_read.level.den

\* ------------------------------------------------------------------------
\* Properties of the snapshot's lifetime
\* ------------------------------------------------------------------------

\* C28: the snapshot a reader finds right after a successful start() holds
\* the default contents (no device type, all levels 0, all masks 0): nothing
\* received before a stop() is carried over to the next start()
C28_SnapshotResetAtStart ==
    [][ (last_start'.seq # last_start.seq /\ last_start'.ret = "True") =>
          /\ voicemeeter_type' = None
          /\ \A i \in 1..34 : input_levels'[i].num = 0
          /\ \A j \in 1..64 : output_levels'[j].num = 0
          /\ strip_states' = [k \in 1..8 |-> 0]
          /\ bus_states' = [k \in 1..8 |-> 0] ]_vars

\* ------------------------------------------------------------------------
\* Properties of the receive loop's robustness
\* ------------------------------------------------------------------------

\* C29: whatever arrives (telemetry, foreign or undersized datagrams,
\* timeouts, receive errors), a receive loop leaves `while self.running`
\* only by finding the running flag cleared at the head of the loop: never
\* while the flag is set, and never out of recvfrom or the decoder
C29_LoopExitsOnlyWhenStopped ==
    [][ \A t \in Threads :
            (pc[t] \in {"head", "recv"} /\ pc'[t] \notin {"head", "recv"})
                => (~running /\ pc[t] = "head" /\ pc'[t] = "done") ]_vars

\* the listener is running and its loop is back at the head after a
\* well-formed frame whose payload was too small to decode
C29_Witness ==
    /\ running
    /\ last_recv.got /\ last_recv.parsed
    /\ Len(last_recv.payload) < 212
    /\ \E t \in Threads : pc[t] = "head"

\* ------------------------------------------------------------------------
\* Properties of the bitmask tail
\* ------------------------------------------------------------------------

\* C31: the decoder replaces the state bitmasks exactly when the payload is
\* at least 280 bytes long: the masks change only inside a locked update of
\* such a payload, and when the update is complete (the with-block is about
\* to be left, the lock still held) the device type and the levels are those
\* of the payload and, for a payload of 280 bytes or more, the 8 strip masks
\* are the little-endian 32-bit values at payload bytes 216..247 and the 8
\* bus masks those at bytes 248..279
C31_MasksReplacedWithLevels ==
    /\ [][ (strip_states' # strip_states \/ bus_states' # bus_states) =>
              \E t \in Threads : lock = t /\ lock' = t /\ Len(pending[t]) >= 280 ]_vars
    /\ [](\A t \in Threads : pc[t] = "release" =>
            LET p == pending[t]
            IN  /\ lock = t
                /\ voicemeeter_type = p[1]
                /\ \A i \in 1..34 :
                      input_levels[i].num * 100
                          = WireLevel(p, 16 + 2 * (i - 1)) * input_levels[i].den
                /\ \A j \in 1..64 :
                      output_levels[j].num * 100
                          = WireLevel(p, 84 + 2 * (j - 1)) * output_levels[j].den
                /\ Len(p) >= 280 =>
                      /\ strip_states = [k \in 1..8 |-> WireMask(p, 217 + 4 * (k - 1))]
                      /\ bus_states = [k \in 1..8 |-> WireMask(p, 249 + 4 * (k - 1))])

\* the second update of a run is complete: a 280-byte payload has replaced
\* the masks of the frame before it
C31_Witness ==
    /\ n_frames = 2
    /\ pc[1] = "release"
    /\ Len(pending[1]) = 280
    /\ last_access.field = "bus_states"
    /\ strip_states # Zeros(8)
    /\ strip_states # ParsedStripStates(WarmPayload)

\* a 279-byte payload has replaced the levels and left the masks of the
\* frame before it
C31_WitnessTailLess ==
    /\ pc[1] = "release"
    /\ Len(pending[1]) = 279
    /\ last_access.field = "output_levels"
    /\ strip_states # Zeros(8)

\* ------------------------------------------------------------------------
\* Properties of the settings dialog
\* ------------------------------------------------------------------------

\* C32: every call made on a sender by a control or by the keep-alive goes
\* to the peer that is configured when the call is made (the address and
\* port of the last save, and for a command also its stream name): after a
\* save nothing is sent to the peer configured before it
C32_SendsGoToConfiguredPeer ==
    [][ last_tx'.seq # last_tx.seq =>
          /\ last_tx'.ip = peer_ip'
          /\ last_tx'.port = peer_port'
          /\ last_tx'.source # "keepalive" => last_tx'.name = stream_name' ]_vars

\* ------------------------------------------------------------------------
\* Properties of the telemetry sync of the widgets
\* ------------------------------------------------------------------------

\* C33: while no frame carrying the bitmask tail has been decoded, the sync
\* of _update_meter leaves the mute state of the widget as it is: a mute
\* click is not undone by the next sync tick
C33_SyncOnlyFromReceivedMasks ==
    [][ (meter_pc = Idle /\ meter_pc' # Idle /\ last_tail = <<>>) => muted' = muted ]_vars

\* ------------------------------------------------------------------------
\* Properties of the channel ranges and the accessors
\* ------------------------------------------------------------------------

\* the channels base..base+count-1 of a range
Channels(range) == range[1]..(range[1] + range[2] - 1)

\* the number of strips of the profile device type vm_type maps to
StripsOf(vm_type) == Len(MIXER_PROFILES[VM_TYPE_TO_PROFILE[vm_type]].strip_labels)

\* C34: for a device type of {1, 2, 3, 6} and a strip index of its profile
\* the strip's channel range lies within the 34 input levels, and the ranges
\* of two distinct strips of the profile share no channel; for a bus index
\* 0..7 the bus range lies within the 64 output levels
C34_RangesWithinArrays ==
    acc_out.called =>
        /\ voicemeeter_type \in {1, 2, 3, 6} =>
              LET n == StripsOf(voicemeeter_type)
              IN  /\ acc_in.index \in 0..(n - 1) =>
                        /\ acc_out.strip_range[1] >= 0
                        /\ acc_out.strip_range[1] + acc_out.strip_range[2] <= 34
                  /\ (/\ acc_in.index \in 0..(n - 1)
                      /\ acc_in.other \in 0..(n - 1)
                      /\ acc_in.index # acc_in.other) =>
                        Channels(acc_out.strip_range) \cap Channels(acc_out.other_range) = {}
        /\ acc_in.index \in 0..7 =>
              /\ acc_out.bus_range[1] >= 0
              /\ acc_out.bus_range[1] + acc_out.bus_range[2] <= 64

\* the ranges of the last two strips of a Potato were computed: the last one
\* ends with the last input level
C34_Witness ==
    /\ acc_out.called
    /\ voicemeeter_type = 6
    /\ acc_in.index = 7
    /\ acc_in.other = 6
    /\ acc_out.strip_range = <<26, 8>>
    /\ acc_out.bus_range = <<56, 8>>

\* level is the greatest of levels[base..end-1] (0-based, end exclusive)
IsMaxOf(level, levels, base, end) ==
    /\ \E k \in base..(end - 1) : level = levels[k + 1]
    /\ \A k \in base..(end - 1) : ~LevelLess(level, levels[k + 1])

\* what the level accessor returns for a range over levels
TotalLevel(level, levels, range) ==
    IF range[1] < 0 \/ range[1] >= Len(levels)
    THEN level = Floor
    ELSE IsMaxOf(level, levels, range[1],
                 IF range[1] + range[2] < Len(levels) THEN range[1] + range[2]
                 ELSE Len(levels))

\* C35: for any integer index the level accessors return -100.0 when the
\* derived range starts outside the level array and otherwise the maximum
\* over the part of the range inside the array, the state accessors return
\* the mask for an index in 0..7 and None outside; the call leaves the
\* snapshot as it was
C35_AccessorsTotal ==
    /\ [](acc_out.called =>
            /\ TotalLevel(acc_out.input_level, input_levels, acc_out.strip_range)
            /\ TotalLevel(acc_out.output_level, output_levels, acc_out.bus_range)
            /\ acc_out.strip_state =
                  IF acc_in.index \in 0..7 THEN strip_states[acc_in.index + 1] ELSE None
            /\ acc_out.bus_state =
                  IF acc_in.index \in 0..7 THEN bus_states[acc_in.index + 1] ELSE None)
    /\ [][acc_out' # acc_out => UNCHANGED snapshot]_vars

\* the accessors were called with a negative index on a snapshot that holds
\* a frame
C35_Witness ==
    /\ acc_out.called
    /\ acc_in.index = -1
    /\ voicemeeter_type = 2
    /\ strip_states # Zeros(8)
    /\ acc_out.strip_state = None
    /\ acc_out.input_level = Floor

\* the accessors were called with the index of a range that is cut by the
\* end of the input levels
C35_WitnessPartial ==
    /\ acc_out.called
    /\ acc_in.index = 6
    /\ voicemeeter_type = 2
    /\ acc_out.strip_range = <<30, 8>>
    /\ IsMaxOf(acc_out.input_level, input_levels, 30, 34)

\* ------------------------------------------------------------------------
\* Properties of the keep-alive schedule in time
\* ------------------------------------------------------------------------

C37_NoClosedSenderRetained ==
    /\ sender_socket \in {"none", "open"}
    /\ last_call.socket # "closed"

\* C38: the remembered mute state changes only when the Mute command of a
\* toggle was sent: a toggle that does not return True leaves the state of
\* its index as it was, and every toggle leaves the states of the other
\* indices and of the other kind as they were
C38_MuteStateFollowsSend ==
    [][ last_call'.seq # last_call.seq =>
          LET toggled == last_call'.op \in {"toggle_strip_mute", "toggle_bus_mute"}
                            /\ last_call'.ret = "True"
          IN  /\ \A i \in PluginIndices :
                    (~toggled \/ ~last_call'.is_strip \/ i # last_call'.index)
                        => strip_mute_states'[i] = strip_mute_states[i]
              /\ \A i \in PluginIndices :
                    (~toggled \/ last_call'.is_strip \/ i # last_call'.index)
                        => bus_mute_states'[i] = bus_mute_states[i] ]_vars

============================================================================
